---- MODULE Spec2Model ----
(***************************************************************************)
(* Model of the document-structure parser of israel-law-mcp                *)
(* (scripts/lib/parser.ts): the two HTML strategies, the two plain-text    *)
(* state machines and the definition extractors.                           *)
(*                                                                         *)
(* Strings.  A JavaScript string is modelled as a sequence of runs         *)
(* <<c, n>>: the character c repeated n times.  Every character is a run   *)
(* of length 1, except the filler letter "z", which may be run-length      *)
(* encoded so that texts of 8000 and more characters stay small.  "z"      *)
(* occurs in no literal of any pattern of the parser.  Lengths (.length,   *)
(* substring(0, n)) are counted in characters; match positions are indices *)
(* of runs, which are ordered as the character offsets are.                *)
(***************************************************************************)
EXTENDS Integers, Sequences, FiniteSets, TLC

VARIABLES text, act, fn, result, first,
          skipFetch, pending, seedFiles, sourceFiles, counters, perActReport,
          loopThrew,
          now, lastRequestTime, requests, calls,
          db, response,
          loopLines, cursor, machine

\* the state of the ingestion run of scripts/ingest.ts; loopThrew is TRUE
\* once an exception has left the loop of fetchAndParseActs
ingestVars == <<skipFetch, pending, seedFiles, sourceFiles, counters, perActReport,
                loopThrew>>

\* the state outside the parser invocation
\* the state of lib/fetcher.ts: the clock, the module variable
\* lastRequestTime, the start times of the requests sent, and the fetch
\* calls under way
fetchVars == <<now, lastRequestTime, requests, calls>>

\* the database the tools of src/tools read, and what the last tool call
\* returned
toolVars == <<db, response>>

\* a plain-text parser stopped inside its line loop: the array lines (here
\* loopLines), the
\* index (from 1) of the line the next iteration reads, 0 when no loop is
\* under way, and the loop's local variables
lineVars == <<loopLines, cursor, machine>>

envVars == <<ingestVars, fetchVars, toolVars, lineVars>>

vars == <<text, act, fn, result, first, envVars>>

(***************************************************************************)
(* String primitives                                                       *)
(***************************************************************************)
Explode(str) == [i \in 1..Len(str) |-> <<SubSeq(str, i, i), 1>>]

Filler(n) == << <<"z", n>> >>

SP == <<" ", 1>>

RECURSIVE SumRuns(_, _, _)
SumRuns(s, a, b) ==
    IF a > b THEN 0
    ELSE IF a = b THEN s[a][2]
    ELSE LET m == (a + b) \div 2
         IN  SumRuns(s, a, m) + SumRuns(s, m + 1, b)

\* s.length
StrLen(s) == SumRuns(s, 1, Len(s))

MinOf(S) == CHOOSE x \in S : \A y \in S : x <= y

MaxOf(S) == CHOOSE x \in S : \A y \in S : x >= y

\* s.substring(0, n)
Substring0(s, n) ==
    IF StrLen(s) <= n THEN s
    ELSE LET k == MinOf({j \in 1..Len(s) : SumRuns(s, 1, j) > n})
             before == SumRuns(s, 1, k - 1)
         IN  IF n <= before THEN SubSeq(s, 1, k - 1)
             ELSE SubSeq(s, 1, k - 1) \o << <<s[k][1], n - before>> >>

\* s.substring(a, b) for match positions a <= b (run indices, b exclusive)
Slice(s, a, b) == SubSeq(s, a, b - 1)

Digits == {"0", "1", "2", "3", "4", "5", "6", "7", "8", "9"}

Lowers ==
    {"a", "b", "c", "d", "e", "f", "g", "h", "i", "j", "k", "l", "m",
     "n", "o", "p", "q", "r", "s", "t", "u", "v", "w", "x", "y", "z"}

Uppers ==
    {"A", "B", "C", "D", "E", "F", "G", "H", "I", "J", "K", "L", "M",
     "N", "O", "P", "Q", "R", "S", "T", "U", "V", "W", "X", "Y", "Z"}

Letters == Lowers \cup Uppers

WordChars == Letters \cup Digits \cup {"_"}

WhiteSpace == {" ", "\n", "\t", "\r"}

UpperSeq == "ABCDEFGHIJKLMNOPQRSTUVWXYZ"

LowerSeq == "abcdefghijklmnopqrstuvwxyz"

LowerOf ==
    [c \in Uppers |->
        LET i == CHOOSE k \in 1..Len(UpperSeq) : SubSeq(UpperSeq, k, k) = c
        IN  SubSeq(LowerSeq, i, i)]

\* case folding of the /i flag
Fold(c) == IF c \in Uppers THEN LowerOf[c] ELSE c

\* the character at run i, "" past the end
At(s, i) == IF i >= 1 /\ i <= Len(s) THEN s[i][1] ELSE ""

\* a single character (a run of length one) of the class at run i
OneOf(s, i, class) == i >= 1 /\ i <= Len(s) /\ s[i][1] \in class /\ s[i][2] = 1

\* the literal lit at run i, case-sensitive
HasLit(s, i, lit) ==
    /\ i >= 1
    /\ i + Len(lit) - 1 <= Len(s)
    /\ \A k \in 1..Len(lit) : s[i + k - 1][1] = SubSeq(lit, k, k)

\* the literal lit at run i under the /i flag
HasLitI(s, i, lit) ==
    /\ i >= 1
    /\ i + Len(lit) - 1 <= Len(s)
    /\ \A k \in 1..Len(lit) : Fold(s[i + k - 1][1]) = Fold(SubSeq(lit, k, k))

\* greedy class*: the first run at or after i whose character is not in the
\* class (neg = FALSE) or is in it (neg = TRUE, a class [^...])
SkipClass(s, i, class, neg) ==
    LET J == {j \in i..Len(s) : (s[j][1] \in class) = neg}
    IN  IF J = {} THEN IF i > Len(s) THEN i ELSE Len(s) + 1 ELSE MinOf(J)

\* the first run at or after i that holds the character c, Len(s) + 1 if none
NextChar(s, i, c) == SkipClass(s, i, {c}, TRUE)

\* the concatenation of pieces[a..b]
RECURSIVE Flatten(_, _, _)
Flatten(pieces, a, b) ==
    IF a > b THEN <<>>
    ELSE IF a = b THEN pieces[a]
    ELSE LET m == (a + b) \div 2
         IN  Flatten(pieces, a, m) \o Flatten(pieces, m + 1, b)

\* s.indexOf(lit) from run i on: the run index, 0 when absent
RECURSIVE IndexOfFrom(_, _, _)
IndexOfFrom(s, i, lit) ==
    LET j == NextChar(s, i, SubSeq(lit, 1, 1))
    IN  IF j > Len(s) THEN 0
        ELSE IF HasLit(s, j, lit) THEN j
        ELSE IndexOfFrom(s, j + 1, lit)

\* s.replace(/lit/g, rep), rep a string of the model
RECURSIVE ReplaceLit(_, _, _, _)
ReplaceLit(s, i, lit, rep) ==
    LET j == NextChar(s, i, SubSeq(lit, 1, 1))
    IN  IF j > Len(s) THEN SubSeq(s, i, Len(s))
        ELSE IF HasLit(s, j, lit)
             THEN SubSeq(s, i, j - 1) \o rep
                  \o ReplaceLit(s, j + Len(lit), lit, rep)
             ELSE SubSeq(s, i, j) \o ReplaceLit(s, j + 1, lit, rep)

\* s.replace(/\s+/g, ' ')
CollapseWs(s) ==
    Flatten([i \in 1..Len(s) |->
                IF s[i][1] \notin WhiteSpace THEN <<s[i]>>
                ELSE IF i > 1 /\ s[i - 1][1] \in WhiteSpace THEN <<>>
                ELSE <<SP>>],
            1, Len(s))

\* s.trim()
Trim(s) ==
    LET keep == {i \in 1..Len(s) : s[i][1] \notin WhiteSpace}
    IN  IF keep = {} THEN <<>> ELSE SubSeq(s, MinOf(keep), MaxOf(keep))

\* s.replace(/<[^>]+>/g, ' ') from run i on
RECURSIVE StripTags(_, _)
StripTags(s, i) ==
    LET lt == NextChar(s, i, "<")
        gt == NextChar(s, lt + 1, ">")
    IN  IF lt > Len(s) THEN SubSeq(s, i, Len(s))
        ELSE IF gt > lt + 1 /\ gt <= Len(s)
             THEN SubSeq(s, i, lt - 1) \o <<SP>> \o StripTags(s, gt + 1)
             ELSE SubSeq(s, i, lt) \o StripTags(s, lt + 1)

normalizeText(s) == Trim(CollapseWs(s))

stripHtml(html) ==
    LET t0 == StripTags(html, 1)
        t1 == ReplaceLit(t0, 1, "&nbsp;", Explode(" "))
        t2 == ReplaceLit(t1, 1, "&amp;", Explode("&"))
        t3 == ReplaceLit(t2, 1, "&lt;", Explode("<"))
        t4 == ReplaceLit(t3, 1, "&gt;", Explode(">"))
        t5 == ReplaceLit(t4, 1, "&quot;", Explode("\""))
        t6 == ReplaceLit(t5, 1, "&#39;", Explode("'"))
    IN  Trim(CollapseWs(t6))

(***************************************************************************)
(* Patterns of the HTML strategies.  A match is a record with ok, the run   *)
(* index just past the match (end) and the captured groups.                 *)
(***************************************************************************)
NoMatch == [ok |-> FALSE, end |-> 0, g1 |-> <<>>, g2 |-> <<>>]

\* /<B>(?:<a[^>]*><\/a>)?\s*(\d+[A-Z]?)\.\s+([^<]+)<\/B>/gi  tried at run i
sectionPattern(s, i) ==
    IF ~HasLitI(s, i, "<B>") THEN NoMatch
    ELSE
    LET a0 == i + 3
        aGt == SkipClass(s, a0 + 2, {">"}, TRUE)
        a1 == IF HasLitI(s, a0, "<a") /\ HasLitI(s, aGt, "></a>")
              THEN aGt + 5 ELSE a0
        n0 == SkipClass(s, a1, WhiteSpace, FALSE)
        n1 == SkipClass(s, n0, Digits, FALSE)
        n2 == IF OneOf(s, n1, Letters) THEN n1 + 1 ELSE n1
        t0 == n2 + 1
        tWs == SkipClass(s, t0, WhiteSpace, FALSE)
        tEnd == SkipClass(s, t0, {"<"}, TRUE)
        \* \s+ is greedy but gives back one character when [^<]+ needs it
        tTitle == IF tWs < tEnd THEN tWs ELSE tEnd - 1
    IN  IF /\ n1 > n0
           /\ At(s, n2) = "."
           /\ At(s, t0) \in WhiteSpace
           /\ StrLen(Slice(s, t0, tEnd)) >= 2
           /\ HasLitI(s, tEnd, "</B>")
        THEN [ok |-> TRUE, end |-> tEnd + 4,
              g1 |-> Slice(s, n0, n2), g2 |-> Slice(s, tTitle, tEnd)]
        ELSE NoMatch

\* /<B>\s*(<word>\s+[^:]+:\s*[^<]+)<\/B>/gi  tried at run i, <word> being
\* CHAPTER (chapterPattern) or Article (articlePattern)
headingPattern(s, i, word) ==
    IF ~HasLitI(s, i, "<B>") THEN NoMatch
    ELSE
    LET w0 == SkipClass(s, i + 3, WhiteSpace, FALSE)
        w1 == w0 + Len(word)
        colon == SkipClass(s, w1, {":"}, TRUE)
        tEnd == SkipClass(s, colon + 1, {"<"}, TRUE)
    IN  IF /\ HasLitI(s, w0, word)
           /\ At(s, w1) \in WhiteSpace
           /\ StrLen(Slice(s, w1, colon)) >= 2
           /\ At(s, colon) = ":"
           /\ tEnd > colon + 1
           /\ HasLitI(s, tEnd, "</B>")
        THEN [ok |-> TRUE, end |-> tEnd + 4,
              g1 |-> Slice(s, w0, tEnd), g2 |-> <<>>]
        ELSE NoMatch

chapterPattern(s, i) == headingPattern(s, i, "CHAPTER")

articlePattern(s, i) == headingPattern(s, i, "Article")

\* the lookahead (?=<\/TD>\s*<\/TR>\s*<\/TABLE>\s*<BR>) at run i, /i
TableEndAt(s, i) ==
    LET r0 == SkipClass(s, i + 5, WhiteSpace, FALSE)
        b0 == SkipClass(s, r0 + 5, WhiteSpace, FALSE)
        e0 == SkipClass(s, b0 + 8, WhiteSpace, FALSE)
    IN  /\ HasLitI(s, i, "</TD>")
        /\ HasLitI(s, r0, "</TR>")
        /\ HasLitI(s, b0, "</TABLE>")
        /\ HasLitI(s, e0, "<BR>")

\* the first run at or after i where lit occurs under /i, 0 when absent
FirstLitI(s, i, lit) ==
    LET J == {j \in i..Len(s) : HasLitI(s, j, lit)}
    IN  IF J = {} THEN 0 ELSE MinOf(J)

\* the first run at or after i where the lookahead succeeds, 0 when none
FirstTableEnd(s, i) ==
    LET J == {j \in i..Len(s) : TableEndAt(s, j)}
    IN  IF J = {} THEN 0 ELSE MinOf(J)

\* html.match(/PROTECTION OF PRIVACY LAW[\s\S]*?(?=...)/i), then
\* body = bodyMatch ? bodyMatch[0] : html
PrivacyBody(html) ==
    LET st == FirstLitI(html, 1, "PROTECTION OF PRIVACY LAW")
        en == IF st = 0 THEN 0 ELSE FirstTableEnd(html, st + 25)
    IN  IF st > 0 /\ en > 0 THEN Slice(html, st, en) ELSE html

(***************************************************************************)
(* Definition extractors.  The four non-ASCII characters the patterns name  *)
(* are written with ASCII stand-ins that occur nowhere else in a pattern:   *)
(* U+201C as "{", U+201D as "}", U+2013 as "~" and U+2014 as "=".           *)
(***************************************************************************)
LDQUO == "{"

RDQUO == "}"

DashChars == {"-", "~", "="}

\* One attempt, at run i, of the pattern
\*   [open]([^close]+)[close]\s*[dash]\s*([^;]+(?:;|$))     (many = FALSE)
\*   [open]([^close]+)[close]\s*[dash]+\s*([^;]+;)          (many = TRUE)
\* A greedy \s* or [dash]+ gives back its last character when [^;]+ would
\* otherwise be empty.
defPatternAt(s, i, open, close, many) ==
    IF At(s, i) \notin open THEN NoMatch
    ELSE
    LET q1 == SkipClass(s, i + 1, close, TRUE)
        d0 == SkipClass(s, q1 + 1, WhiteSpace, FALSE)
        d1 == IF many THEN SkipClass(s, d0, DashChars, FALSE) ELSE d0 + 1
        w1 == SkipClass(s, d1, WhiteSpace, FALSE)
        semi == SkipClass(s, w1, {";"}, TRUE)
        g2 == IF semi > w1 THEN w1
              ELSE IF w1 > d1 THEN w1 - 1
              ELSE IF d1 - d0 >= 2 THEN d1 - 1
              ELSE 0
        stop == IF semi <= Len(s) THEN semi + 1 ELSE semi
    IN  IF /\ q1 > i + 1
           /\ At(s, q1) \in close
           /\ At(s, d0) \in DashChars
           /\ g2 > 0
           /\ (many => semi <= Len(s))
        THEN [ok |-> TRUE, end |-> stop,
              g1 |-> Slice(s, i + 1, q1), g2 |-> Slice(s, g2, stop)]
        ELSE NoMatch

\* normalizeText(match[2]).replace(/;$/, '').trim()
DefinitionText(g2) ==
    LET t == normalizeText(g2)
    IN  IF Len(t) > 0 /\ t[Len(t)][1] = ";"
        THEN Trim(SubSeq(t, 1, Len(t) - 1)) ELSE Trim(t)

HasTerm(definitions, term) ==
    \E k \in 1..Len(definitions) : definitions[k].term = term

\* term.length < 80
TERM_LIMIT == 80

\* definition.length > 5
MIN_DEFINITION == 5

\* term.length > 1 && term.length < 80 && definition.length > 5
DefinitionAccepted(term, definition) ==
    /\ StrLen(term) > 1
    /\ StrLen(term) < TERM_LIMIT
    /\ StrLen(definition) > MIN_DEFINITION

\* definitions.push(...) without the duplicate check
PushDefinitionAlways(definitions, term, definition, sourceProvision) ==
    Append(definitions, [term |-> term, definition |-> definition,
                         source_provision |-> sourceProvision])

\* if (!definitions.some((d) => d.term === term)) definitions.push(...)
PushDefinition(definitions, term, definition, sourceProvision) ==
    IF HasTerm(definitions, term) THEN definitions
    ELSE Append(definitions, [term |-> term, definition |-> definition,
                              source_provision |-> sourceProvision])

\* while ((match = defPattern.exec(content)) !== null): the matches from run
\* i on, in order, each with its normalized term and definition
RECURSIVE DefMatches(_, _, _, _, _)
DefMatches(content, i, open, close, many) ==
    LET j == SkipClass(content, i, open, TRUE)
        m == defPatternAt(content, j, open, close, many)
    IN  IF j > Len(content) THEN <<>>
        ELSE IF ~m.ok THEN DefMatches(content, j + 1, open, close, many)
        ELSE <<[term |-> normalizeText(m.g1),
                definition |-> DefinitionText(m.g2)]>>
             \o DefMatches(content, m.end, open, close, many)

\* the loop body of extractDefinitionsFromContent over matches[k..]
RECURSIVE ContentDefLoop(_, _, _, _)
ContentDefLoop(matches, k, sourceProvision, definitions) ==
    IF k > Len(matches) THEN definitions
    ELSE ContentDefLoop(matches, k + 1, sourceProvision,
             IF DefinitionAccepted(matches[k].term, matches[k].definition)
             THEN PushDefinition(definitions, matches[k].term,
                                 matches[k].definition, sourceProvision)
             ELSE definitions)

\* /["\u201c]([^"\u201d]+)["\u201d]\s*[-\u2013\u2014]\s*([^;]+(?:;|$))/g
ContentMatches(content) ==
    DefMatches(content, 1, {"\"", LDQUO}, {"\"", RDQUO}, FALSE)

\* content.substring(0, 8000)
MAX_CONTENT == 8000

\* an extraction that reads the stored part of the content only
extractDefinitionsFromStored(content, sourceProvision, definitions) ==
    ContentDefLoop(ContentMatches(Substring0(content, MAX_CONTENT)), 1,
                   sourceProvision, definitions)

extractDefinitionsFromContent(content, sourceProvision, definitions) ==
    ContentDefLoop(ContentMatches(content), 1, sourceProvision, definitions)

\* the loop body of extractDefinitionsFromPlainText over matches[k..]; st is
\* [seen, definitions]
RECURSIVE PlainDefLoop(_, _, _, _)
PlainDefLoop(matches, k, sourceProvision, st) ==
    IF k > Len(matches) THEN st
    ELSE PlainDefLoop(matches, k + 1, sourceProvision,
             IF /\ DefinitionAccepted(matches[k].term, matches[k].definition)
                /\ matches[k].term \notin st.seen
             THEN [seen |-> st.seen \cup {matches[k].term},
                   definitions |-> PushDefinition(st.definitions,
                       matches[k].term, matches[k].definition,
                       sourceProvision)]
             ELSE st)

\* the matches of the two patterns, the first pattern's first
PlainTextMatches(content) ==
    DefMatches(content, 1, {"\"", LDQUO}, {"\"", RDQUO}, TRUE)
    \o DefMatches(content, 1, {"\""}, {"\""}, TRUE)

extractDefinitionsFromPlainText(content, sourceProvision, definitions) ==
    PlainDefLoop(PlainTextMatches(content), 1, sourceProvision,
                 [seen |-> {}, definitions |-> definitions]).definitions

(***************************************************************************)
(* HTML strategies                                                         *)
(***************************************************************************)
\* the value undefined: a string no text can be (its run has length 0)
undefined == << <<"undefined", 0>> >>

\* content.length > 10
MIN_CONTENT == 10

\* const provisions: ParsedProvision[] = []
NewProvisions == <<>>

\* a definitions list that outlives the invocation that filled it
StaleDefinitions == result.definitions

\* const definitions: ParsedDefinition[] = []
NewDefinitions == <<>>

\* while ((secMatch = sectionPattern.exec(body)) !== null) sectionMatches.push
RECURSIVE ScanSections(_, _)
ScanSections(body, i) ==
    LET j == NextChar(body, i, "<")
        m == sectionPattern(body, j)
    IN  IF j > Len(body) THEN <<>>
        ELSE IF m.ok
             THEN <<[pos |-> j, num |-> Trim(m.g1),
                     title |-> normalizeText(stripHtml(m.g2))]>>
                  \o ScanSections(body, m.end)
             ELSE ScanSections(body, j + 1)

\* while ((chMatch = pattern.exec(body)) !== null) chapters.push
RECURSIVE ScanHeadings(_, _, _)
ScanHeadings(body, i, word) ==
    LET j == NextChar(body, i, "<")
        m == headingPattern(body, j, word)
    IN  IF j > Len(body) THEN <<>>
        ELSE IF m.ok
             THEN <<[pos |-> j, name |-> normalizeText(stripHtml(m.g1))]>>
                  \o ScanHeadings(body, m.end, word)
             ELSE ScanHeadings(body, j + 1, word)

\* insertion of c into a list sorted by pos, after the entries not greater
RECURSIVE InsertByPos(_, _)
InsertByPos(sorted, c) ==
    IF sorted = <<>> THEN <<c>>
    ELSE IF Head(sorted).pos <= c.pos
         THEN <<Head(sorted)>> \o InsertByPos(Tail(sorted), c)
         ELSE <<c>> \o sorted

\* chapters.sort((a, b) => a.pos - b.pos)
RECURSIVE SortByPos(_)
SortByPos(chapters) ==
    IF chapters = <<>> THEN <<>>
    ELSE InsertByPos(SortByPos(SubSeq(chapters, 1, Len(chapters) - 1)),
                     chapters[Len(chapters)])

\* the chapter list left in scan order: chapter matches, then article matches
PrivacyChaptersUnsorted(body) ==
    ScanHeadings(body, 1, "CHAPTER") \o ScanHeadings(body, 1, "Article")

\* the chapter list of parsePrivacyLawHtml: chapter matches, then article
\* matches, sorted by position
PrivacyChapters(body) ==
    SortByPos(ScanHeadings(body, 1, "CHAPTER") \o ScanHeadings(body, 1, "Article"))

\* the chapter list of the generic fallback: chapter matches only
GenericChapters(html) == ScanHeadings(html, 1, "CHAPTER")

\* for (const ch of chapters) if (ch.pos < sec.pos) currentChapter = ch.name
RECURSIVE ChapterLoop(_, _, _, _)
ChapterLoop(chapters, k, pos, currentChapter) ==
    IF k > Len(chapters) THEN currentChapter
    ELSE ChapterLoop(chapters, k + 1, pos,
             IF chapters[k].pos < pos THEN chapters[k].name
             ELSE currentChapter)

\* currentChapter || undefined
OrUndefined(str) == IF str = <<>> THEN undefined ELSE str

\* `sec${sec.num}`
ProvRef(num) == Explode("sec") \o num

\* a threshold that keeps a content of exactly MIN_CONTENT characters
RetainedFromMin(content) == StrLen(content) >= MIN_CONTENT

\* content.length > 10
Retained(content) == StrLen(content) > MIN_CONTENT

\* a provision whose content is stored whole
MakeProvisionUncut(num, title, chapter, content, pos) ==
    [provision_ref |-> ProvRef(num), chapter |-> OrUndefined(chapter),
     section |-> num, title |-> title, content |-> content, pos |-> pos]

\* provisions.push({provision_ref, chapter, section, title, content}); pos is
\* not a field of ParsedProvision: it records where the heading was found
MakeProvision(num, title, chapter, content, pos) ==
    [provision_ref |-> ProvRef(num), chapter |-> OrUndefined(chapter),
     section |-> num, title |-> title,
     content |-> Substring0(content, MAX_CONTENT), pos |-> pos]

\* provisions.unshift(p)
PushProvisionFirst(provisions, p) == <<p>> \o provisions

PushProvision(provisions, p) == Append(provisions, p)

\* a designation that also takes section 1
PrivacyDefinitionalWide(num) ==
    num \in {Explode("1"), Explode("3"), Explode("7"), Explode("17C")}

\* sec.num === '3' || sec.num === '7' || sec.num === '17C'
PrivacyDefinitional(num) ==
    num \in {Explode("3"), Explode("7"), Explode("17C")}

\* an iteration whose content span runs to the end of the body whatever
\* section follows
HtmlSectionStepToEnd(body, sectionMatches, chapters, i, st, withDefs) ==
    LET sec == sectionMatches[i]
        currentChapter == ChapterLoop(chapters, 1, sec.pos, st.currentChapter)
        content == normalizeText(stripHtml(Slice(body, sec.pos, Len(body) + 1)))
        cand == [pos |-> sec.pos, num |-> sec.num, title |-> sec.title,
                 chapter |-> currentChapter, content |-> content]
    IN  IF Retained(content)
        THEN [currentChapter |-> currentChapter,
              provisions |-> PushProvision(st.provisions,
                  MakeProvision(sec.num, sec.title, currentChapter, content,
                                sec.pos)),
              definitions |->
                  IF withDefs /\ PrivacyDefinitional(sec.num)
                  THEN extractDefinitionsFromContent(content, ProvRef(sec.num),
                                                     st.definitions)
                  ELSE st.definitions,
              cands |-> Append(st.cands, cand)]
        ELSE [st EXCEPT !.currentChapter = currentChapter,
                        !.cands = Append(st.cands, cand)]

\* One iteration of the section loop of the HTML strategies.  st is
\* [currentChapter, provisions, definitions, cands]; cands logs, for every
\* section match, the values the iteration computed.
HtmlSectionStep(body, sectionMatches, chapters, i, st, withDefs) ==
    LET sec == sectionMatches[i]
        currentChapter == ChapterLoop(chapters, 1, sec.pos, st.currentChapter)
        startPos == sec.pos
        endPos == IF i < Len(sectionMatches) THEN sectionMatches[i + 1].pos
                  ELSE Len(body) + 1
        content == normalizeText(stripHtml(Slice(body, startPos, endPos)))
        cand == [pos |-> sec.pos, num |-> sec.num, title |-> sec.title,
                 chapter |-> currentChapter, content |-> content]
    IN  IF Retained(content)
        THEN [currentChapter |-> currentChapter,
              provisions |-> PushProvision(st.provisions,
                  MakeProvision(sec.num, sec.title, currentChapter, content,
                                sec.pos)),
              definitions |->
                  IF withDefs /\ PrivacyDefinitional(sec.num)
                  THEN extractDefinitionsFromContent(content, ProvRef(sec.num),
                                                     st.definitions)
                  ELSE st.definitions,
              cands |-> Append(st.cands, cand)]
        ELSE [st EXCEPT !.currentChapter = currentChapter,
                        !.cands = Append(st.cands, cand)]

RECURSIVE HtmlSectionLoop(_, _, _, _, _, _)
HtmlSectionLoop(body, sectionMatches, chapters, i, st, withDefs) ==
    IF i > Len(sectionMatches) THEN st
    ELSE HtmlSectionLoop(body, sectionMatches, chapters, i + 1,
             HtmlSectionStep(body, sectionMatches, chapters, i, st, withDefs),
             withDefs)

\* what a parse function returns, with the log of its candidates
Returned(id, st) ==
    [thrown |-> FALSE, id |-> id, provisions |-> st.provisions,
     definitions |-> st.definitions, cands |-> st.cands]

\* an uncaught TypeError
Thrown(id) ==
    [thrown |-> TRUE, id |-> id, provisions |-> <<>>, definitions |-> <<>>,
     cands |-> <<>>]

parsePrivacyLawHtml(html, id) ==
    LET body == PrivacyBody(html)
        st0 == [currentChapter |-> <<>>, provisions |-> NewProvisions,
                definitions |-> NewDefinitions, cands |-> <<>>]
    IN  Returned(id, HtmlSectionLoop(body, ScanSections(body, 1),
                         PrivacyChapters(body), 1, st0, TRUE))

PRIVACY_ID == "privacy-protection-law-1981"

parseIsraeliLawHtml(html, id) ==
    IF id = PRIVACY_ID THEN parsePrivacyLawHtml(html, id)
    ELSE
    LET st0 == [currentChapter |-> <<>>, provisions |-> NewProvisions,
                definitions |-> NewDefinitions, cands |-> <<>>]
    IN  Returned(id, HtmlSectionLoop(html, ScanSections(html, 1),
                         GenericChapters(html), 1, st0, FALSE))

(***************************************************************************)
(* Plain-text strategies: line patterns                                    *)
(***************************************************************************)
\* text.split('\n') from run i on
RECURSIVE SplitLines(_, _)
SplitLines(s, i) ==
    LET j == NextChar(s, i, "\n")
    IN  IF j > Len(s) THEN <<SubSeq(s, i, Len(s))>>
        ELSE <<SubSeq(s, i, j - 1)>> \o SplitLines(s, j + 1)

\* the end of a leading (\d+[letters]?) group, 0 when the line has none
LabelEnd(line, letters) ==
    LET d1 == SkipClass(line, 1, Digits, FALSE)
    IN  IF d1 = 1 THEN 0
        ELSE IF OneOf(line, d1, letters) THEN d1 + 1 ELSE d1

\* /^\d+$/
AllDigits(line) ==
    Len(line) > 0 /\ \A k \in 1..Len(line) : line[k][1] \in Digits

\* /^lit\s+/i
StartsWithWordI(line, lit) ==
    HasLitI(line, 1, lit) /\ At(line, Len(lit) + 1) \in WhiteSpace

\* /^Section\s+\d+/
SectionRef(line) ==
    /\ HasLit(line, 1, "Section")
    /\ At(line, 8) \in WhiteSpace
    /\ At(line, SkipClass(line, 8, WhiteSpace, FALSE)) \in Digits

\* /^Go$/i
GoLine(line) == Len(line) = 2 /\ HasLitI(line, 1, "Go")

\* a pattern that matches no line
chapterMatchNever(line) == FALSE

\* /^Chapter\s+(One|Two|...|Ten|\w+):\s*(.+)/i : every alternative is a run
\* of word characters that the colon must follow
chapterMatch(line) ==
    LET w0 == SkipClass(line, 8, WhiteSpace, FALSE)
        w1 == SkipClass(line, w0, WordChars, FALSE)
    IN  /\ StartsWithWordI(line, "Chapter")
        /\ w1 > w0
        /\ At(line, w1) = ":"
        /\ w1 < Len(line)

\* /^(\d+[A-Za-z]?)\.\s*$/
sectionAloneMatch(line) ==
    LET n2 == LabelEnd(line, Letters)
    IN  IF /\ n2 > 0
           /\ At(line, n2) = "."
           /\ SkipClass(line, n2 + 1, WhiteSpace, FALSE) > Len(line)
        THEN [ok |-> TRUE, end |-> Len(line) + 1,
              g1 |-> Slice(line, 1, n2), g2 |-> <<>>]
        ELSE NoMatch

\* /^(\d+[letters]?)\.\s+(.+)/ ; \s+ gives back its last character when
\* nothing else is left for (.+)
InlineMatch(line, letters) ==
    LET n2 == LabelEnd(line, letters)
        w == SkipClass(line, n2 + 1, WhiteSpace, FALSE)
        g == IF w <= Len(line) THEN w ELSE Len(line)
    IN  IF /\ n2 > 0
           /\ At(line, n2) = "."
           /\ At(line, n2 + 1) \in WhiteSpace
           /\ g > n2 + 1
        THEN [ok |-> TRUE, end |-> Len(line) + 1,
              g1 |-> Slice(line, 1, n2), g2 |-> SubSeq(line, g, Len(line))]
        ELSE NoMatch

sectionInlineMatch(line) == InlineMatch(line, Letters)

\* l.length < 100
MAX_TITLE_LINE == 100

\* the filter of marginalNoteLines that keeps title candidates; the filter
\* of the section-alone branch also drops /^Published in/i
TitleCandidate(l, dropPublished) ==
    /\ StrLen(l) > 0
    /\ StrLen(l) < MAX_TITLE_LINE
    /\ ~StartsWithWordI(l, "Chapter")
    /\ ~GoLine(l)
    /\ ~SectionRef(l)
    /\ ~StartsWithWordI(l, "Clause")
    /\ At(l, 1) # "*"
    /\ l # Explode("Contents")
    /\ ~AllDigits(l)
    /\ ~HasLitI(l, 1, "Computers Law")
    /\ (dropPublished => ~HasLitI(l, 1, "Published in"))

\* titleCandidates.join(' ')
RECURSIVE JoinSpace(_)
JoinSpace(ls) ==
    IF ls = <<>> THEN <<>>
    ELSE IF Len(ls) = 1 THEN ls[1]
    ELSE ls[1] \o <<SP>> \o JoinSpace(Tail(ls))

\* a title that ignores the marginal notes
MarginalTitleNone(marginalNoteLines, dropPublished) == <<>>

\* normalizeText(marginalNoteLines.filter(...).join(' '))
MarginalTitle(marginalNoteLines, dropPublished) ==
    normalizeText(JoinSpace(SelectSeq(marginalNoteLines,
                      LAMBDA l : TitleCandidate(l, dropPublished))))

\* line.match(/^\d+$/) && line.length <= 3
PAGE_NUMBER_LEN == 3

\* the lines the in-section branch skips
SkippedContentLine(line) ==
    \/ AllDigits(line) /\ StrLen(line) <= PAGE_NUMBER_LEN
    \/ HasLitI(line, 1, "Computers Law, 1995")

\* the lines the no-section branch does not push
MarginalNoise(line) ==
    \/ GoLine(line)
    \/ SectionRef(line)
    \/ HasLitI(line, 1, "Computers Law")
    \/ AllDigits(line)
    \/ line = Explode("*")
    \/ HasLitI(line, 1, "Published in")

\* a save that leaves the open section out
SaveSectionNone(m) == m.sections

\* a save that tags the section with the chapter in force when it is saved
SaveSectionLate(m) ==
    m.sections
    \o [k \in 1..Len(m.currentSection) |->
           IF "currentChapter" \in DOMAIN m
           THEN [m.currentSection[k] EXCEPT !.chapter = m.currentChapter]
           ELSE m.currentSection[k]]

(***************************************************************************)
(* parseComputerLawText: the statute state machine.  The machine state m   *)
(* is [currentChapter, sections, currentSection, marginalNoteLines];       *)
(* currentSection is <<>> for null and <<section>> otherwise.  A section   *)
(* carries pos, the index of its section-start line, which is not a field  *)
(* of the code's record.                                                   *)
(***************************************************************************)
\* if (currentSection) sections.push(currentSection)
SaveSection(m) == m.sections \o m.currentSection

\* const lawText = lawTextStart >= 0 ? text.substring(lawTextStart) : text
ComputerLawText(txt) ==
    LET lawTextStart == IndexOfFrom(txt, 1, "Computers Law, 5755")
    IN  IF lawTextStart > 0 THEN SubSeq(txt, lawTextStart, Len(txt)) ELSE txt

ComputerInit ==
    [currentChapter |-> <<>>, sections |-> <<>>, currentSection |-> <<>>,
     marginalNoteLines |-> <<>>]

\* one iteration of the line loop, for lines[i] = raw
ComputerLineStep(m, raw, i) ==
    LET line == Trim(raw)
        alone == sectionAloneMatch(line)
        inline == sectionInlineMatch(line)
    IN  IF chapterMatch(line)
        THEN [m EXCEPT !.currentChapter = normalizeText(line),
                       !.marginalNoteLines = <<>>]
        ELSE IF alone.ok
        THEN [m EXCEPT
                !.sections = SaveSection(m),
                !.currentSection =
                    <<[num |-> alone.g1,
                       title |-> MarginalTitle(m.marginalNoteLines, TRUE),
                       content |-> <<>>,
                       chapter |-> m.currentChapter, pos |-> i]>>,
                !.marginalNoteLines = <<>>]
        ELSE IF inline.ok
        THEN IF HasLitI(inline.g2, 1, "Published in") THEN m
             ELSE [m EXCEPT
                     !.sections = SaveSection(m),
                     !.currentSection =
                         <<[num |-> inline.g1,
                            title |-> MarginalTitle(m.marginalNoteLines, FALSE),
                            content |-> normalizeText(line),
                            chapter |-> m.currentChapter, pos |-> i]>>,
                     !.marginalNoteLines = <<>>]
        ELSE IF m.currentSection # <<>> /\ Len(line) > 0
        THEN IF SkippedContentLine(line) THEN m
             ELSE [m EXCEPT !.currentSection[1].content =
                                @ \o <<SP>> \o normalizeText(line)]
        ELSE IF m.currentSection = <<>> /\ Len(line) > 0
        THEN IF ~MarginalNoise(line)
             THEN [m EXCEPT !.marginalNoteLines = Append(@, line)]
             ELSE IF GoLine(line) \/ SectionRef(line)
                  THEN [m EXCEPT !.marginalNoteLines = <<>>]
                  ELSE m
        ELSE m

RECURSIVE ComputerLineLoop(_, _, _)
ComputerLineLoop(m, lines, i) ==
    IF i > Len(lines) THEN m
    ELSE ComputerLineLoop(ComputerLineStep(m, lines[i], i), lines, i + 1)

\* sec.num === '1'
ComputerDefinitional(num) == num = Explode("1")

\* one iteration of the final loop over sections; st is
\* [provisions, definitions, cands]
TextSectionStep(st, sec, withDefs) ==
    LET content == normalizeText(sec.content)
        cand == [pos |-> sec.pos, num |-> sec.num, title |-> sec.title,
                 chapter |-> sec.chapter, content |-> content]
    IN  IF Retained(content)
        THEN [provisions |-> PushProvision(st.provisions,
                  MakeProvision(sec.num, sec.title, sec.chapter, content,
                                sec.pos)),
              definitions |->
                  IF withDefs /\ ComputerDefinitional(sec.num)
                  THEN extractDefinitionsFromPlainText(content,
                           ProvRef(sec.num), st.definitions)
                  ELSE st.definitions,
              cands |-> Append(st.cands, cand)]
        ELSE [st EXCEPT !.cands = Append(st.cands, cand)]

RECURSIVE TextSectionLoop(_, _, _, _)
TextSectionLoop(st, sections, k, withDefs) ==
    IF k > Len(sections) THEN st
    ELSE TextSectionLoop(TextSectionStep(st, sections[k], withDefs),
                         sections, k + 1, withDefs)

parseComputerLawText(txt, id) ==
    LET lines == SplitLines(ComputerLawText(txt), 1)
        m == ComputerLineLoop(ComputerInit, lines, 1)
        st0 == [provisions |-> NewProvisions, definitions |-> NewDefinitions,
                cands |-> <<>>]
    IN  Returned(id, TextSectionLoop(st0, SaveSection(m), 1, TRUE))

(***************************************************************************)
(* parseBasicLawText: the basic-law state machine.  The machine state m    *)
(* is [sections, currentSection, thrown].                                  *)
(***************************************************************************)
\* /^(\d+[a-z]?)\.\s*(.*)/
sectionMatch(line) ==
    LET n2 == LabelEnd(line, Lowers)
        w == SkipClass(line, n2 + 1, WhiteSpace, FALSE)
    IN  IF n2 > 0 /\ At(line, n2) = "."
        THEN [ok |-> TRUE, end |-> Len(line) + 1,
              g1 |-> Slice(line, 1, n2), g2 |-> SubSeq(line, w, Len(line))]
        ELSE NoMatch

\* prevLine.match(/^\d+[a-z]?\.\s/)
NumberedLine(line) ==
    LET n2 == LabelEnd(line, Lowers)
    IN  n2 > 0 /\ At(line, n2) = "." /\ At(line, n2 + 1) \in WhiteSpace

\* the look-back reads at most this many lines before the section start
LOOK_BACK == 4

\* i - 4 without the Math.max
LookBackFloorOpen(i) == i - LOOK_BACK

\* Math.max(0, i - 4), in the 1-based line indices of the model
LookBackFloor(i) == IF i - LOOK_BACK > 1 THEN i - LOOK_BACK ELSE 1

\* the look-back loop from line j down to the floor; r is [thrown, title].
\* lines[j] past the array is undefined and undefined.trim() throws.
RECURSIVE LookBackLoop(_, _, _, _)
LookBackLoop(lines, j, floor, r) ==
    IF j < floor THEN r
    ELSE IF j < 1 \/ j > Len(lines) THEN [r EXCEPT !.thrown = TRUE]
    ELSE
    LET prevLine == Trim(lines[j])
    IN  IF /\ Len(prevLine) > 0
           /\ ~NumberedLine(prevLine)
           /\ ~HasLit(prevLine, 1, "(Amendment")
           /\ StrLen(prevLine) < MAX_TITLE_LINE
        THEN LookBackLoop(lines, j - 1, floor,
                 [r EXCEPT !.title = IF r.title # <<>>
                                     THEN prevLine \o <<SP>> \o r.title
                                     ELSE prevLine])
        ELSE IF Len(prevLine) = 0 /\ StrLen(r.title) > 0
        THEN r
        ELSE LookBackLoop(lines, j - 1, floor, r)

LookBack(lines, i) ==
    LookBackLoop(lines, i - 1, LookBackFloor(i),
                 [thrown |-> FALSE, title |-> <<>>])

\* the header and footer lines the content branch skips
BasicSkippedLine(line) ==
    \/ HasLitI(line, 1, "BASIC-LAW:")
    \/ HasLitI(line, 1, "This unofficial")
    \/ HasLitI(line, 1, "For the full")
    \/ HasLitI(line, 1, "Special thanks")

BasicInit == [sections |-> <<>>, currentSection |-> <<>>, thrown |-> FALSE]

\* one iteration of the line loop, for lines[i]
BasicLineStep(m, lines, i) ==
    LET line == Trim(lines[i])
        sm == sectionMatch(line)
        lb == LookBack(lines, i)
    IN  IF m.thrown THEN m
        ELSE IF sm.ok
        THEN IF lb.thrown THEN [m EXCEPT !.thrown = TRUE]
             ELSE [m EXCEPT
                     !.sections = SaveSection(m),
                     !.currentSection =
                         <<[num |-> sm.g1, title |-> normalizeText(lb.title),
                            content |-> IF sm.g2 # <<>>
                                        THEN normalizeText(line) ELSE <<>>,
                            chapter |-> <<>>, pos |-> i]>>]
        ELSE IF m.currentSection # <<>> /\ Len(line) > 0
        THEN IF BasicSkippedLine(line) THEN m
             ELSE [m EXCEPT !.currentSection[1].content =
                                @ \o <<SP>> \o normalizeText(line)]
        ELSE m

RECURSIVE BasicLineLoop(_, _, _)
BasicLineLoop(m, lines, i) ==
    IF i > Len(lines) THEN m
    ELSE BasicLineLoop(BasicLineStep(m, lines, i), lines, i + 1)

parseBasicLawText(txt, id) ==
    LET lines == SplitLines(txt, 1)
        m == BasicLineLoop(BasicInit, lines, 1)
        st0 == [provisions |-> NewProvisions, definitions |-> NewDefinitions,
                cands |-> <<>>]
    IN  IF m.thrown THEN Thrown(id)
        ELSE Returned(id, TextSectionLoop(st0, SaveSection(m), 1, FALSE))

(***************************************************************************)
(* Inputs.  A text is the concatenation of at most MaxChunks chunks, all   *)
(* HTML chunks or all plain-text chunks.                                    *)
(***************************************************************************)
MaxChunks == 3

\* a filler long enough to take a section past MAX_CONTENT characters
LongRun == MAX_CONTENT - 10

HtmlChunks ==
    << Explode("<B>CHAPTER A: In</B>"),
       Explode("<B>Article 1: Da</B>"),
       Explode("<B>1. First part</B>"),
       Explode("<B>3. Defs</B>"),
       Explode("<B>7. Term</B>"),
       Explode(" ab"),
       Explode(" \"ab\" - def one;"),
       Explode(" \"ab\" - def two;"),
       Explode(" ") \o Filler(LongRun),
       Explode("<B>2. ") >>

TextChunks ==
    << Explode("Titles\n"),
       Explode("1.\n"),
       Explode("2. Inline body\n"),
       Explode("Body text.\n"),
       Explode("\"ab\" - def one;\n"),
       Explode("\"ab\" - def two;\n"),
       Explode("Chapter One: General\n"),
       Explode("\n"),
       Explode("1. a\n"),
       Filler(LongRun) \o Explode("\n") >>

\* the sequences over 1..n of length at most k
RECURSIVE SeqsUpTo(_, _)
SeqsUpTo(n, k) ==
    IF k = 0 THEN {<<>>}
    ELSE LET shorter == SeqsUpTo(n, k - 1)
         IN  shorter \cup {Append(q, c) : q \in shorter, c \in 1..n}

Concat(chunks, q) == Flatten([k \in 1..Len(q) |-> chunks[q[k]]], 1, Len(q))

\* whole documents: the statute plain-text scenario
MarginalScenario ==
    Explode("Marginal Title\n\n1.\n\nBody text here that is long enough.")
    \o Explode("\n\n2. Inline body text also long enough.")

\* a section whose normalized content has a space as its 8000th character
CutScenario ==
    Explode("<B>1. First part</B> ") \o Filler(MAX_CONTENT - 15)
    \o Explode(" tail text")

\* a section whose text shows markup written with character entities
EntityScenario ==
    Explode("<B>2. Second part</B> type &lt;b&gt;bold&lt;/b&gt; for bold")

Scenarios == {MarginalScenario, CutScenario, EntityScenario}

Inputs ==
    {Concat(HtmlChunks, q) : q \in SeqsUpTo(Len(HtmlChunks), MaxChunks)}
    \cup {Concat(TextChunks, q) : q \in SeqsUpTo(Len(TextChunks), MaxChunks)}
    \cup Scenarios

Acts == {PRIVACY_ID, "computer-law-1995"}

Functions ==
    {"parsePrivacyLawHtml", "parseIsraeliLawHtml", "parseComputerLawText",
     "parseBasicLawText"}

(***************************************************************************)
(* The state machine: a caller holding a text invokes a parse function.     *)
(*   text    the text handed to the parser                                  *)
(*   act     the identity record of the last invocation (its id)            *)
(*   fn      the function last invoked, "none" before the first call        *)
(*   result  the ParsedAct it returned (thrown = TRUE for an exception),    *)
(*           with cands, the candidate sections of the invocation in loop   *)
(*           order                                                          *)
(*   first   the first invocation of the run, [fn, text, act, result],      *)
(*           followed by the text of the latest invocation on another text  *)
(***************************************************************************)
(***************************************************************************)
(* The ingestion run of scripts/ingest.ts: its files and its counters       *)
(***************************************************************************)
KEY_ISRAELI_ACTS ==
    << "privacy-protection-law-1981", "data-security-regulations-2017",
       "computer-law-1995", "basic-law-human-dignity-1992",
       "companies-law-1999", "electronic-signature-law-2001",
       "credit-data-law-2002", "freedom-of-information-law-1998",
       "regulation-of-security-1998", "communications-law-1982" >>

ActIds == {KEY_ISRAELI_ACTS[k] : k \in 1..Len(KEY_ISRAELI_ACTS)}

\* a file that does not exist
NoFile == [exists |-> FALSE]

NoCounters ==
    [processed |-> 0, fetched |-> 0, metadataOnly |-> 0, skipped |-> 0,
     failed |-> 0, totalProvisions |-> 0, totalDefinitions |-> 0]

\* no ingestion run is under way
IngestIdle ==
    /\ skipFetch = FALSE
    /\ pending = <<>>
    /\ seedFiles = [id \in ActIds |-> NoFile]
    /\ sourceFiles = [id \in ActIds |-> NoFile]
    /\ counters = NoCounters
    /\ perActReport = <<>>
    /\ loopThrew = FALSE

\* Date.now() when the module is loaded
START_TIME == 1000

\* no fetch call is under way
FetchIdle ==
    /\ now = START_TIME
    /\ lastRequestTime = 0
    /\ requests = <<>>
    /\ calls = <<>>

EmptyDb == [legal_documents |-> <<>>, legal_provisions |-> <<>>,
            db_metadata |-> <<>>]

NoResponse == [called |-> "none"]

\* no tool has been called
ToolIdle ==
    /\ db = EmptyDb
    /\ response = NoResponse

NoMachine == [sections |-> <<>>, currentSection |-> <<>>]

\* no line loop is under way
LineIdle ==
    /\ loopLines = <<>>
    /\ cursor = 0
    /\ machine = NoMachine

EnvIdle == IngestIdle /\ FetchIdle /\ ToolIdle /\ LineIdle

NoResult ==
    [thrown |-> FALSE, id |-> "", provisions |-> <<>>, definitions |-> <<>>,
     cands |-> <<>>]

Init ==
    /\ text \in Inputs
    /\ act = ""
    /\ fn = "none"
    /\ result = NoResult
    /\ first = <<>>
    /\ EnvIdle

\* the history kept in first after an invocation of f that returned r
Invocation(f, r) ==
    IF first = <<>>
    THEN <<[fn |-> f, text |-> text, act |-> r.id, result |-> r]>>
    ELSE IF text # first[1].text THEN <<first[1], text>>
    ELSE first

ParsePrivacyLawHtml ==
    /\ fn = "none"
    /\ \E id \in Acts :
        /\ act' = id
        /\ result' = parsePrivacyLawHtml(text, id)
    /\ fn' = "parsePrivacyLawHtml"
    /\ first' = Invocation("parsePrivacyLawHtml", result')
    /\ UNCHANGED <<text, envVars>>

ParseIsraeliLawHtml ==
    /\ fn = "none"
    /\ \E id \in Acts :
        /\ act' = id
        /\ result' = parseIsraeliLawHtml(text, id)
    /\ fn' = "parseIsraeliLawHtml"
    /\ first' = Invocation("parseIsraeliLawHtml", result')
    /\ UNCHANGED <<text, envVars>>

ParseComputerLawText ==
    /\ fn = "none"
    /\ \E id \in Acts :
        /\ act' = id
        /\ result' = parseComputerLawText(text, id)
    /\ fn' = "parseComputerLawText"
    /\ first' = Invocation("parseComputerLawText", result')
    /\ UNCHANGED <<text, envVars>>

ParseBasicLawText ==
    /\ fn = "none"
    /\ \E id \in Acts :
        /\ act' = id
        /\ result' = parseBasicLawText(text, id)
    /\ fn' = "parseBasicLawText"
    /\ first' = Invocation("parseBasicLawText", result')
    /\ UNCHANGED <<text, envVars>>

Next ==
    \/ ParsePrivacyLawHtml
    \/ ParseIsraeliLawHtml
    \/ ParseComputerLawText
    \/ ParseBasicLawText

Spec == Init /\ [][Next]_vars

(***************************************************************************)
(* Repeated invocations.  The caller invokes the parse functions any       *)
(* number of times, handing over a new text between two calls; first keeps  *)
(* the first invocation and what it returned.                               *)
(***************************************************************************)
RepeatDocs ==
    << Explode("<B>3. Defs</B> \"ab\" - def one;"),
       Explode("<B>3. Defs</B> \"cd\" - def two;"),
       Explode("1.\n\"ab\" - def one;\n"),
       Explode("1.\n\"cd\" - def two;\n") >>

RepeatInputs == {<<>>} \cup {RepeatDocs[k] : k \in 1..Len(RepeatDocs)}

InitRepeat ==
    /\ text \in RepeatInputs
    /\ act = ""
    /\ fn = "none"
    /\ result = NoResult
    /\ first = <<>>
    /\ EnvIdle

NewText ==
    /\ fn # "none"
    /\ text' \in RepeatInputs
    /\ fn' = "none"
    /\ UNCHANGED <<act, result, first, envVars>>

NextRepeat ==
    \/ NewText
    \/ ParsePrivacyLawHtml
    \/ ParseIsraeliLawHtml
    \/ ParseComputerLawText
    \/ ParseBasicLawText

SpecRepeat == InitRepeat /\ [][NextRepeat]_vars

(***************************************************************************)
(* The definition extractors on their own: a provision content made of at  *)
(* most MaxChunks pieces is handed to one extractor with the empty          *)
(* definitions list of a fresh invocation.  result.cands logs the pattern   *)
(* matches in the order the loop met them.                                  *)
(***************************************************************************)
\* a term of n characters
TermOf(n) == Explode("a") \o Filler(n - 1)

DefChunks ==
    << Explode("\"ab\" - def one; "),
       Explode("\"ab\" - def two; "),
       Explode("\"x\" - def one; "),
       Explode("\"x\" - def two; "),
       Explode("\"ab\" - short; "),
       Explode("\"") \o TermOf(TERM_LIMIT - 1) \o Explode("\" - def one; "),
       Explode("\"") \o TermOf(TERM_LIMIT) \o Explode("\" - def one; "),
       Explode("{cd} = def six; ") >>

DefInputs ==
    {Concat(DefChunks, q) : q \in SeqsUpTo(Len(DefChunks), MaxChunks)}

DEF_SOURCE == Explode("sec1")

InitDefs ==
    /\ text \in DefInputs
    /\ act = ""
    /\ fn = "none"
    /\ result = NoResult
    /\ first = <<>>
    /\ EnvIdle

ExtractDefinitionsFromContent ==
    /\ fn = "none"
    /\ fn' = "extractDefinitionsFromContent"
    /\ result' = [NoResult EXCEPT
           !.definitions =
               extractDefinitionsFromContent(text, DEF_SOURCE, NewDefinitions),
           !.cands = ContentMatches(text)]
    /\ UNCHANGED <<text, act, first, envVars>>

ExtractDefinitionsFromPlainText ==
    /\ fn = "none"
    /\ fn' = "extractDefinitionsFromPlainText"
    /\ result' = [NoResult EXCEPT
           !.definitions =
               extractDefinitionsFromPlainText(text, DEF_SOURCE, NewDefinitions),
           !.cands = PlainTextMatches(text)]
    /\ UNCHANGED <<text, act, first, envVars>>

NextDefs ==
    \/ ExtractDefinitionsFromContent
    \/ ExtractDefinitionsFromPlainText

SpecDefs == InitDefs /\ [][NextDefs]_vars

(***************************************************************************)
(* Properties of the parse functions                                        *)
(***************************************************************************)
Parsed == fn \in Functions

HtmlParsed == fn \in {"parsePrivacyLawHtml", "parseIsraeliLawHtml"}

\* the invocation ran the Privacy Law strategy
PrivacyParsed ==
    \/ fn = "parsePrivacyLawHtml"
    \/ fn = "parseIsraeliLawHtml" /\ act = PRIVACY_ID

\* the candidate section a provision was made from
CandOf(p) ==
    CHOOSE c \in {result.cands[k] : k \in 1..Len(result.cands)} :
        c.pos = p.pos

HasCand(p) == \E k \in 1..Len(result.cands) : result.cands[k].pos = p.pos

\* C1: in the result of every parse function the provisions stand in the
\* order their section headings have in the source: heading positions grow
\* strictly along the list, and every provision carries the label found at
\* its heading, so nothing is reordered or renumbered.
C1_SourceOrder ==
    Parsed =>
        /\ \A i, j \in 1..Len(result.provisions) :
               i < j => result.provisions[i].pos < result.provisions[j].pos
        /\ \A i \in 1..Len(result.provisions) :
               /\ HasCand(result.provisions[i])
               /\ CandOf(result.provisions[i]).num = result.provisions[i].section

\* three provisions emitted from one text by a plain-text strategy
C1_Witness ==
    /\ fn = "parseComputerLawText"
    /\ Len(result.provisions) = 3
    /\ result.provisions[1].pos < result.provisions[3].pos

\* the chapter and article headings of the body the HTML strategy scanned
HeadingsOf(body) ==
    LET chs == ScanHeadings(body, 1, "CHAPTER")
        arts == IF PrivacyParsed THEN ScanHeadings(body, 1, "Article")
                ELSE <<>>
    IN  {chs[k] : k \in 1..Len(chs)} \cup {arts[k] : k \in 1..Len(arts)}

ScannedBody == IF PrivacyParsed THEN PrivacyBody(text) ELSE text

HeadingsBefore(pos) == {h \in HeadingsOf(ScannedBody) : h.pos < pos}

\* C2: in the HTML strategies a provision's chapter is the label of the
\* chapter or article heading with the greatest offset below the section's
\* offset, and undefined when no heading precedes the section.
C2_NearestHeading ==
    HtmlParsed =>
        \A i \in 1..Len(result.provisions) :
            LET p == result.provisions[i]
                before == HeadingsBefore(p.pos)
            IN  IF before = {} THEN p.chapter = undefined
                ELSE \E h \in before :
                        /\ \A g \in before : g.pos <= h.pos
                        /\ p.chapter = h.name

\* a provision preceded by an article heading and then a chapter heading,
\* attributed to the chapter heading
C2_Witness ==
    /\ fn = "parsePrivacyLawHtml"
    /\ \E i \in 1..Len(result.provisions) :
           /\ Cardinality(HeadingsBefore(result.provisions[i].pos)) = 2
           /\ result.provisions[i].chapter = Explode("CHAPTER A: In")
           /\ \E h \in HeadingsBefore(result.provisions[i].pos) :
                  /\ h.name = Explode("Article 1: Da")
                  /\ h.pos = 1

\* the candidates whose normalized content is longer than ten characters
LongCands == SelectSeq(result.cands, LAMBDA c : StrLen(c.content) > 10)

\* C3: a candidate section becomes a provision exactly when its normalized
\* content is longer than 10 characters: the provisions are, in order, the
\* candidates with more than 10 characters, and no shorter one is emitted.
C3_RetainedIffLong ==
    Parsed =>
        /\ Len(result.provisions) = Len(LongCands)
        /\ \A i \in 1..Len(LongCands) :
               /\ result.provisions[i].pos = LongCands[i].pos
               /\ result.provisions[i].section = LongCands[i].num

\* a candidate of exactly 11 characters kept and the 4-character fragment
\* "1. a" dropped
C3_Witness ==
    /\ Parsed
    /\ Len(result.provisions) = 1
    /\ Len(result.cands) = 2
    /\ StrLen(result.cands[1].content) = 11
    /\ result.cands[2].content = Explode("1. a")

\* a is the first StrLen(a) characters of b
IsPrefix(a, b) ==
    \/ a = <<>>
    \/ /\ Len(a) <= Len(b)
       /\ SubSeq(a, 1, Len(a) - 1) = SubSeq(b, 1, Len(a) - 1)
       /\ a[Len(a)][1] = b[Len(a)][1]
       /\ a[Len(a)][2] <= b[Len(a)][2]

\* C4: no provision content is longer than 8000 characters; a longer
\* normalized content is cut to its first 8000 characters and the provision
\* is still emitted, a shorter one is stored whole, and nothing is thrown.
C4_ContentCap ==
    Parsed =>
        /\ ~result.thrown
        /\ \A i \in 1..Len(result.provisions) :
               LET p == result.provisions[i]
                   full == CandOf(p).content
               IN  /\ StrLen(p.content) <= 8000
                   /\ IsPrefix(p.content, full)
                   /\ StrLen(full) <= 8000 => p.content = full
                   /\ StrLen(full) > 8000 => StrLen(p.content) = 8000

\* a provision cut to 8000 characters from a longer content
C4_Witness ==
    /\ Parsed
    /\ \E i \in 1..Len(result.provisions) :
           /\ StrLen(result.provisions[i].content) = 8000
           /\ StrLen(CandOf(result.provisions[i]).content) > 8000

\* C5: no parse function throws, whatever the text (empty, malformed or
\* without a heading); a text with no section heading yields no provision
\* and no definition.
C5_NeverThrows ==
    Parsed =>
        /\ ~result.thrown
        /\ result.cands = <<>> =>
               result.provisions = <<>> /\ result.definitions = <<>>

\* the basic-law strategy returned from a text whose first line is a section
\* heading, so that the look-back window starts before the first line
C5_Witness ==
    /\ fn = "parseBasicLawText"
    /\ ~result.thrown
    /\ Len(result.cands) > 0
    /\ result.cands[1].pos = 1

DesignatedMatches ==
    LET cs == result.cands
        designated(c) ==
            /\ StrLen(c.content) > 10
            /\ \/ PrivacyParsed
                  /\ c.num \in {Explode("3"), Explode("7"), Explode("17C")}
               \/ fn = "parseComputerLawText" /\ c.num = Explode("1")
        matches(c) ==
            IF ~designated(c) THEN <<>>
            ELSE IF PrivacyParsed THEN ContentMatches(c.content)
            ELSE PlainTextMatches(c.content)
    IN  Flatten([k \in 1..Len(cs) |-> matches(cs[k])], 1, Len(cs))

\* C7: no two definitions of a returned ParsedAct have the same term, and
\* the entry kept for a term is the earliest one: its text is the text of
\* the first match of that term, over the designated provisions in order,
\* that has a definition of more than 5 characters.
C7_UniqueTerms ==
    Parsed =>
        /\ \A i, j \in 1..Len(result.definitions) :
               result.definitions[i].term = result.definitions[j].term => i = j
        /\ \A i \in 1..Len(result.definitions) :
               LET d == result.definitions[i]
                   ms == DesignatedMatches
                   K == {k \in 1..Len(ms) :
                            /\ ms[k].term = d.term
                            /\ StrLen(ms[k].definition) > 5}
               IN  K # {} /\ d.definition = ms[MinOf(K)].definition

\* a definitional provision that defines the same term twice, and a result
\* with the first definition alone
C7_Witness ==
    /\ PrivacyParsed
    /\ text = Concat(HtmlChunks, <<4, 7, 8>>)
    /\ Len(result.definitions) = 1
    /\ result.definitions[1].definition = Explode("def one")

\* the provision_ref values of the returned provisions
EmittedRefs ==
    {result.provisions[k].provision_ref : k \in 1..Len(result.provisions)}

\* C10: definitions come only from designated provisions that were emitted:
\* sec3, sec7 or sec17C in the Privacy Law strategy, sec1 in the Computer
\* Law strategy, none at all in the generic HTML fallback and the basic-law
\* strategy; and every source_provision is the provision_ref of a provision
\* of the same result.
C10_DesignatedSources ==
    Parsed =>
        \A i \in 1..Len(result.definitions) :
            LET src == result.definitions[i].source_provision
            IN  /\ src \in EmittedRefs
                /\ PrivacyParsed =>
                       src \in {Explode("sec3"), Explode("sec7"),
                                Explode("sec17C")}
                /\ fn = "parseComputerLawText" => src = Explode("sec1")
                /\ fn = "parseBasicLawText" => FALSE
                /\ fn = "parseIsraeliLawHtml" /\ act # PRIVACY_ID => FALSE

\* the Computer Law strategy returned two provisions and one definition,
\* taken from section 1
C10_Witness ==
    /\ fn = "parseComputerLawText"
    /\ Len(result.provisions) = 2
    /\ Len(result.definitions) = 1
    /\ result.definitions[1].source_provision = Explode("sec1")
    /\ result.provisions[1].section = Explode("2")
    /\ result.provisions[2].section = Explode("1")

(***************************************************************************)
(* Properties of the definition extractors                                  *)
(***************************************************************************)
Extracted ==
    fn \in {"extractDefinitionsFromContent", "extractDefinitionsFromPlainText"}

\* C8: a content that defines one quoted term twice, "t" - d1; "t" - d2;
\* yields exactly one definition of t, with the text d1.
C8_FirstOfTwo ==
    (/\ Extracted
     /\ Len(result.cands) >= 2
     /\ \A k \in 1..Len(result.cands) :
            /\ result.cands[k].term = result.cands[1].term
            /\ StrLen(result.cands[k].definition) > 5)
        => /\ Len(result.definitions) = 1
           /\ result.definitions[1].term = result.cands[1].term
           /\ result.definitions[1].definition = result.cands[1].definition

\* the definition list the stated rule builds from the matches k onwards
RECURSIVE StatedDefinitions(_, _, _)
StatedDefinitions(matches, k, definitions) ==
    IF k > Len(matches) THEN definitions
    ELSE StatedDefinitions(matches, k + 1,
             IF /\ StrLen(matches[k].term) >= 1
                /\ StrLen(matches[k].term) <= 80
                /\ StrLen(matches[k].definition) > 5
                /\ \A d \in 1..Len(definitions) :
                       definitions[d].term # matches[k].term
             THEN Append(definitions,
                      [term |-> matches[k].term,
                       definition |-> matches[k].definition,
                       source_provision |-> DEF_SOURCE])
             ELSE definitions)

\* C9: a matched candidate is appended exactly when its term has 1 to 80
\* characters, its definition more than 5, and the term is not yet captured.
C9_AcceptanceRule ==
    Extracted => result.definitions = StatedDefinitions(result.cands, 1, <<>>)

(***************************************************************************)
(* Properties of the statute plain-text variant                             *)
(***************************************************************************)
\* the trimmed lines the line loop of parseComputerLawText went through
StatuteLines ==
    LET lines == SplitLines(ComputerLawText(text), 1)
    IN  [k \in 1..Len(lines) |-> Trim(lines[k])]

\* a line the in-section branch appends to the content
BodyLine(line) ==
    /\ Len(line) > 0
    /\ ~chapterMatch(line)
    /\ ~sectionAloneMatch(line).ok
    /\ ~sectionInlineMatch(line).ok
    /\ ~SkippedContentLine(line)

\* what the body lines j .. stop - 1 add to a content
RECURSIVE BodyAfter(_, _, _)
BodyAfter(lines, j, stop) ==
    IF j >= stop THEN <<>>
    ELSE (IF BodyLine(lines[j]) THEN <<SP>> \o normalizeText(lines[j])
          ELSE <<>>) \o BodyAfter(lines, j + 1, stop)

\* a line that can only be a marginal note
PlainNote(line) ==
    /\ TitleCandidate(line, TRUE)
    /\ ~MarginalNoise(line)
    /\ ~chapterMatch(line)
    /\ ~sectionAloneMatch(line).ok
    /\ ~sectionInlineMatch(line).ok

\* C11: in the statute variant the marginal-note lines before the first
\* section start become the title of that section and later sections have
\* an empty title; a section started by a line "N." has as content the
\* content lines that follow, without the label, and a section started by
\* a line "N. text" has a content that begins with that normalized line.
C11_TitleAndContent ==
    fn = "parseComputerLawText" =>
        LET lines == StatuteLines
            cs == result.cands
            stop(k) == IF k < Len(cs) THEN cs[k + 1].pos ELSE Len(lines) + 1
            notes == SelectSeq(SubSeq(lines, 1, cs[1].pos - 1),
                               LAMBDA l : Len(l) > 0)
        IN  /\ \A k \in 1..Len(cs) :
                   LET line == lines[cs[k].pos]
                       rest == BodyAfter(lines, cs[k].pos + 1, stop(k))
                   IN  /\ sectionAloneMatch(line).ok =>
                           cs[k].content = normalizeText(rest)
                       /\ ~sectionAloneMatch(line).ok =>
                           /\ sectionInlineMatch(line).ok
                           /\ cs[k].content
                                  = normalizeText(normalizeText(line) \o rest)
                           /\ SubSeq(cs[k].content, 1, Len(normalizeText(line)))
                                  = normalizeText(line)
                       /\ k > 1 => cs[k].title = <<>>
            /\ (Len(cs) > 0 /\ \A n \in 1..Len(notes) : PlainNote(notes[n]))
                   => cs[1].title = normalizeText(JoinSpace(notes))

\* the scenario text gave its two provisions: the first titled by the
\* marginal note, with the body line as content, the second untitled, with
\* a content that starts at its label
C11_Witness ==
    /\ fn = "parseComputerLawText"
    /\ text = MarginalScenario
    /\ Len(result.provisions) = 2
    /\ result.provisions[1].title = Explode("Marginal Title")
    /\ result.provisions[1].content
           = Explode("Body text here that is long enough.")
    /\ result.provisions[2].title = <<>>
    /\ result.provisions[2].content
           = Explode("2. Inline body text also long enough.")

(***************************************************************************)
(* The plain-text router of fetchAndParseActs: the if / else-if chain that  *)
(* picks a state-machine variant for the text of a PDF source.  It is       *)
(* applied here, on its own, to the ids of KEY_ISRAELI_ACTS and to small    *)
(* texts.  The repository holds two versions of the chain.                  *)
(***************************************************************************)
\* id.startsWith(prefix)
StartsWith(id, prefix) ==
    Len(id) >= Len(prefix) /\ SubSeq(id, 1, Len(prefix)) = prefix

\* scripts/ingest.ts: act.id === 'computer-law-1995', then
\* act.id === 'basic-law-human-dignity-1992', else the computer law parser
PdfParser(id) ==
    IF id = "computer-law-1995" THEN "parseComputerLawText"
    ELSE IF id = "basic-law-human-dignity-1992" THEN "parseBasicLawText"
    ELSE "parseComputerLawText"

\* the other version: act.id === 'computer-law-1995', then
\* act.id.startsWith('basic-law-'), else the computer law parser
PdfParserByPrefix(id) ==
    IF id = "computer-law-1995" THEN "parseComputerLawText"
    ELSE IF StartsWith(id, "basic-law-") THEN "parseBasicLawText"
    ELSE "parseComputerLawText"

\* parsed = parse...(pdfText, act) for the variant picked
ParsePdfText(parser, pdfText, id) ==
    IF parser = "parseBasicLawText" THEN parseBasicLawText(pdfText, id)
    ELSE parseComputerLawText(pdfText, id)

\* ids of KEY_ISRAELI_ACTS
RouteIds ==
    {"privacy-protection-law-1981", "data-security-regulations-2017",
     "computer-law-1995", "basic-law-human-dignity-1992",
     "companies-law-1999", "electronic-signature-law-2001",
     "credit-data-law-2002", "freedom-of-information-law-1998",
     "regulation-of-security-1998", "communications-law-1982",
     "basic-law-the-knesset-1958", "basic-law-israel-lands-1960",
     "basic-law-the-president-1964", "basic-law-the-government-2001",
     "basic-law-the-state-economy-1975", "basic-law-the-judiciary-1984",
     "basic-law-jerusalem-1980", "basic-law-freedom-of-occupation-1994",
     "basic-law-referendum-2014", "basic-law-nation-state-2018",
     "basic-law-the-army-1976", "basic-law-legislation-2001"}

RouteTexts ==
    {<<>>, MarginalScenario,
     Explode("Title\n\n1. Inline body text long enough.\n"),
     Explode("no heading here\n")}

InitRoute ==
    /\ text \in RouteTexts
    /\ act \in RouteIds
    /\ fn = "none"
    /\ result = NoResult
    /\ first = <<>>
    /\ EnvIdle

RoutePdfText ==
    /\ fn = "none"
    /\ fn' = PdfParser(act)
    /\ result' = ParsePdfText(fn', text, act)
    /\ first' = <<"scripts/ingest.ts">>
    /\ UNCHANGED <<text, act, envVars>>

RoutePdfTextByPrefix ==
    /\ fn = "none"
    /\ fn' = PdfParserByPrefix(act)
    /\ result' = ParsePdfText(fn', text, act)
    /\ first' = <<"startsWith">>
    /\ UNCHANGED <<text, act, envVars>>

NextRoute ==
    \/ RoutePdfText
    \/ RoutePdfTextByPrefix

SpecRoute == InitRoute /\ [][NextRoute]_vars

PrivacyUntrimmed(html, id) ==
    LET st0 == [currentChapter |-> <<>>, provisions |-> NewProvisions,
                definitions |-> NewDefinitions, cands |-> <<>>]
    IN  Returned(id, HtmlSectionLoop(html, ScanSections(html, 1),
                         PrivacyChapters(html), 1, st0, TRUE))

\* section, title, chapter and content of every provision of a list
ProvisionFields(provisions) ==
    [k \in 1..Len(provisions) |->
        [section |-> provisions[k].section, title |-> provisions[k].title,
         chapter |-> provisions[k].chapter, content |-> provisions[k].content]]

\* C13: for every id other than the Privacy Law's, the generic fallback
\* returns the provisions (section, title, chapter, content) that the
\* Privacy Law algorithm gives on the same input without its trimming step.
C13_FallbackSameAsUntrimmed ==
    (fn = "parseIsraeliLawHtml" /\ act # PRIVACY_ID) =>
        ProvisionFields(result.provisions)
            = ProvisionFields(PrivacyUntrimmed(text, act).provisions)

\* C14: in the result of any parsing strategy no two provisions have the
\* same section label.
C14_UniqueSections ==
    Parsed =>
        \A j, k \in 1..Len(result.provisions) :
            result.provisions[j].section = result.provisions[k].section => j = k

(***************************************************************************)
(* The main ingestion loop, fetchAndParseActs of scripts/ingest.ts.  One    *)
(* action is one iteration of the loop on the head of pending; what the     *)
(* network and the file system answer is chosen by the action.  text, act,  *)
(* fn and result hold the text fetched for the act, its id, the parser      *)
(* called and the ParsedAct it returned ("none" and NoResult when no parser *)
(* ran).  A seed file is kept as the function that made the record and the  *)
(* number of its provisions and definitions.                                *)
(***************************************************************************)
MaxActs == 4

\* lib/fetcher.ts: the format of the registered source of an act
SOURCE_REGISTRY(id) ==
    CASE id = "privacy-protection-law-1981" -> "html"
      [] id = "computer-law-1995" -> "pdf"
      [] id = "basic-law-human-dignity-1992" -> "pdf"
      [] OTHER -> "none"

SeedOf(by, provisions, definitions) ==
    [exists |-> TRUE, by |-> by, provisions |-> provisions,
     definitions |-> definitions]

SourceOf(body) == [exists |-> TRUE, body |-> body]

createMetadataOnlyAct(id) ==
    CASE id = "data-security-regulations-2017" ->
            SeedOf("createMetadataOnlyAct", 11, 3)
      [] id \in {"companies-law-1999", "electronic-signature-law-2001",
                 "credit-data-law-2002", "communications-law-1982"} ->
            SeedOf("createMetadataOnlyAct", 6, 3)
      [] id = "freedom-of-information-law-1998" ->
            SeedOf("createMetadataOnlyAct", 6, 2)
      [] id = "regulation-of-security-1998" ->
            SeedOf("createMetadataOnlyAct", 5, 3)
      [] OTHER -> SeedOf("createMetadataOnlyAct", 0, 0)

\* the files and counters of the run, as one record
IngestState ==
    [seedFiles |-> seedFiles, sourceFiles |-> sourceFiles,
     counters |-> counters, perActReport |-> perActReport]

Count(st, counter) == [st EXCEPT !.counters[counter] = @ + 1]

WriteSeed(st, id, seed) == [st EXCEPT !.seedFiles[id] = seed]

\* totalProvisions += ...; totalDefinitions += ...; perActReport.push(...)
Report(st, id, provisions, definitions, source) ==
    [st EXCEPT !.counters.totalProvisions = @ + provisions,
               !.counters.totalDefinitions = @ + definitions,
               !.perActReport = Append(@, [id |-> id, provisions |-> provisions,
                                           definitions |-> definitions,
                                           source |-> source])]

\* a catch block whose inner catch reports nothing
CatchErrorSilent(st, id, fallbackWritten) ==
    LET fallback == createMetadataOnlyAct(id)
        s1 == Count(st, "failed")
        s2 == IF fallbackWritten
              THEN Report(WriteSeed(s1, id, fallback), id, fallback.provisions,
                          fallback.definitions, "error-fallback")
              ELSE s1
    IN  Count(s2, "processed")

\* the catch block of the iteration, then processed++
CatchError(st, id, fallbackWritten) ==
    LET fallback == createMetadataOnlyAct(id)
        s1 == Count(st, "failed")
        s2 == IF fallbackWritten
              THEN Report(WriteSeed(s1, id, fallback), id, fallback.provisions,
                          fallback.definitions, "error-fallback")
              ELSE Report(s1, id, 0, 0, "failed")
    IN  Count(s2, "processed")

\* the early exit of a failed fetch: the metadata record is written
MetadataFallback(st, id, written, fallbackWritten) ==
    LET parsed == createMetadataOnlyAct(id)
    IN  IF written
        THEN Count(Count(Report(WriteSeed(st, id, parsed), id, parsed.provisions,
                                parsed.definitions, "metadata-fallback"),
                         "metadataOnly"), "processed")
        ELSE CatchError(st, id, fallbackWritten)

\* the end of the try block: the record is written and reported
StoreParsed(st, id, parsed, written, fallbackWritten) ==
    LET format == SOURCE_REGISTRY(id)
        sourceLabel == IF format = "none" THEN "metadata"
                       ELSE IF format = "pdf" THEN "pdf" ELSE "html"
    IN  IF written
        THEN Count(Report(WriteSeed(st, id, parsed), id, parsed.provisions,
                          parsed.definitions, sourceLabel), "processed")
        ELSE CatchError(st, id, fallbackWritten)

\* the record a parser returned, as it is written to the seed file
ParsedSeed(by, parsed) ==
    SeedOf(by, Len(parsed.provisions), Len(parsed.definitions))

\* the iteration is over: the files and counters are st
NextAct(st) ==
    /\ seedFiles' = st.seedFiles
    /\ sourceFiles' = st.sourceFiles
    /\ counters' = st.counters
    /\ perActReport' = st.perActReport
    /\ pending' = Tail(pending)
    /\ UNCHANGED <<skipFetch, loopThrew, first, fetchVars, toolVars, lineVars>>

Cached(id) == skipFetch /\ seedFiles[id].exists

\* a seed file an interrupted run left behind: it exists and is no JSON
TruncatedSeed ==
    [exists |-> TRUE, by |-> "interrupted run", provisions |-> 0,
     definitions |-> 0]

\* JSON.parse(fs.readFileSync(seedFile, 'utf-8')) returns
Readable(seed) == seed # TruncatedSeed

\* the pages a fetch of the HTML source may return
IngestHtml ==
    {Explode("<B>1. First part</B> text<B>3. Defs</B> \"ab\" - def one;"),
     Explode("<html>Checking your browser</html>")}

\* status 0 stands for a fetch that throws
HtmlResponses ==
    {[status |-> 0, body |-> <<>>], [status |-> 404, body |-> <<>>]}
        \cup {[status |-> 200, body |-> b] : b \in IngestHtml}

\* what fetchPdfAsText may return; it returns null or a text of more than
\* 50 characters
IngestPdf ==
    {MarginalScenario,
     Explode("Basic Law\n\n1.\n\nThe purpose of this Basic Law is to protect.\n"),
     Explode("scanned page without any text layer ") \o Filler(40) \o Explode("\n")}

PdfResponses == {[null |-> TRUE, text |-> <<>>]}
                    \cup {[null |-> FALSE, text |-> t] : t \in IngestPdf}

\* a run is started on the first acts of the list (--limit), with or
\* without --skip-fetch; with it, files of an earlier run may exist
InitIngest ==
    /\ text = <<>>
    /\ act = ""
    /\ fn = "none"
    /\ result = NoResult
    /\ first = <<>>
    /\ skipFetch \in BOOLEAN
    /\ \E limit \in 1..MaxActs : pending = SubSeq(KEY_ISRAELI_ACTS, 1, limit)
    /\ \E kept \in SUBSET {pending[k] : k \in 1..Len(pending)} :
        \E cut \in SUBSET kept :
            seedFiles = [id \in ActIds |->
                            IF skipFetch /\ id \in cut THEN TruncatedSeed
                            ELSE IF skipFetch /\ id \in kept
                            THEN SeedOf("earlier run", 2, 1) ELSE NoFile]
    /\ \E page \in {SourceOf(b) : b \in IngestHtml} \cup {NoFile} :
        sourceFiles = [id \in ActIds |->
                          IF skipFetch /\ id = "privacy-protection-law-1981"
                          THEN page ELSE NoFile]
    /\ counters = NoCounters
    /\ perActReport = <<>>
    /\ loopThrew = FALSE
    /\ FetchIdle
    /\ ToolIdle
    /\ LineIdle

\* the loop of fetchAndParseActs has an act to process
Looping == pending # <<>> /\ ~loopThrew

\* ingest.ts 262-274: the seed exists and --skip-fetch is given
SkipCached ==
    /\ Looping
    /\ Cached(Head(pending))
    /\ Readable(seedFiles[Head(pending)])
    /\ LET id == Head(pending)
           existing == seedFiles[id]
       IN  /\ act' = id
           /\ fn' = "none"
           /\ text' = <<>>
           /\ result' = NoResult
           /\ NextAct(Count(Count(Report(IngestState, id, existing.provisions,
                                         existing.definitions, "cached"),
                                  "skipped"), "processed"))

\* ingest.ts 280-313: the act has an HTML source
HtmlSource ==
    /\ Looping
    /\ ~Cached(Head(pending))
    /\ SOURCE_REGISTRY(Head(pending)) = "html"
    /\ \E answer \in HtmlResponses, written, fallbackWritten \in BOOLEAN :
        LET id == Head(pending)
            onDisk == skipFetch /\ sourceFiles[id].exists
            html == IF onDisk THEN sourceFiles[id].body ELSE answer.body
            parser == IF id = "privacy-protection-law-1981"
                      THEN "parsePrivacyLawHtml" ELSE "parseIsraeliLawHtml"
            saved == IF onDisk THEN IngestState
                     ELSE [IngestState EXCEPT !.sourceFiles[id] = SourceOf(html)]
        IN  /\ act' = id
            /\ IF onDisk \/ answer.status = 200
               THEN /\ text' = html
                    /\ fn' = parser
                    /\ result' = IF parser = "parsePrivacyLawHtml"
                                 THEN parsePrivacyLawHtml(html, id)
                                 ELSE parseIsraeliLawHtml(html, id)
                    /\ NextAct(StoreParsed(Count(saved, "fetched"), id,
                                   ParsedSeed(parser, result'),
                                   written, fallbackWritten))
               ELSE /\ text' = <<>>
                    /\ fn' = "none"
                    /\ result' = NoResult
                    /\ IF answer.status = 0
                       THEN NextAct(CatchError(IngestState, id, fallbackWritten))
                       ELSE NextAct(MetadataFallback(IngestState, id, written,
                                                     fallbackWritten))

\* ingest.ts 315-341: the act has a PDF source
PdfSource ==
    /\ Looping
    /\ ~Cached(Head(pending))
    /\ SOURCE_REGISTRY(Head(pending)) = "pdf"
    /\ \E answer \in PdfResponses, written, fallbackWritten \in BOOLEAN :
        LET id == Head(pending)
            parser == PdfParser(id)
        IN  /\ act' = id
            /\ IF answer.null
               THEN /\ text' = <<>>
                    /\ fn' = "none"
                    /\ result' = NoResult
                    /\ NextAct(MetadataFallback(IngestState, id, written,
                                                fallbackWritten))
               ELSE /\ text' = answer.text
                    /\ fn' = parser
                    /\ result' = ParsePdfText(parser, answer.text, id)
                    /\ NextAct(StoreParsed(Count(IngestState, "fetched"), id,
                                   ParsedSeed(parser, result'),
                                   written, fallbackWritten))

\* ingest.ts 349-354: the act has no accessible source
NoSource ==
    /\ Looping
    /\ ~Cached(Head(pending))
    /\ SOURCE_REGISTRY(Head(pending)) = "none"
    /\ \E written, fallbackWritten \in BOOLEAN :
        LET id == Head(pending)
        IN  /\ act' = id
            /\ fn' = "none"
            /\ text' = <<>>
            /\ result' = NoResult
            /\ NextAct(StoreParsed(Count(IngestState, "metadataOnly"), id,
                           createMetadataOnlyAct(id), written, fallbackWritten))

\* ingest.ts 262-263: the cached seed cannot be parsed; the statement is
\* outside the try block, so the exception leaves the loop and the function
SkipCachedThrows ==
    /\ Looping
    /\ Cached(Head(pending))
    /\ ~Readable(seedFiles[Head(pending)])
    /\ act' = Head(pending)
    /\ fn' = "none"
    /\ text' = <<>>
    /\ result' = NoResult
    /\ loopThrew' = TRUE
    /\ UNCHANGED <<skipFetch, pending, seedFiles, sourceFiles, counters,
                   perActReport, first, fetchVars, toolVars, lineVars>>

NextIngest ==
    \/ SkipCached
    \/ SkipCachedThrows
    \/ HtmlSource
    \/ PdfSource
    \/ NoSource

SpecIngest == InitIngest /\ [][NextIngest]_vars

\* C15: the seed written for an act with a registered source is never a
\* parser result with zero provisions.
C15_NoEmptyParserSeed ==
    \A id \in ActIds :
        (SOURCE_REGISTRY(id) # "none" /\ seedFiles[id].exists
            /\ seedFiles[id].by \in Functions)
        => seedFiles[id].provisions > 0

\* s holds no HTML tag, no leading or trailing whitespace and no two
\* whitespace characters in a row
Canonical(s) == normalizeText(s) = s /\ StripTags(s, 1) = s

\* C16: in every strategy the title and the content of every provision are
\* in canonical normalized form, also when the content was cut, and
\* normalizing a normalized text returns it unchanged.
C16_CanonicalText ==
    Parsed =>
        /\ \A k \in 1..Len(result.provisions) :
              /\ Canonical(result.provisions[k].title)
              /\ Canonical(result.provisions[k].content)
        /\ normalizeText(normalizeText(text)) = normalizeText(text)

(***************************************************************************)
(* The fetcher, lib/fetcher.ts.  Times are in milliseconds.  calls[c] is    *)
(* the fetch call of caller c: op is the function called, pc the place it   *)
(* has reached, attempt the loop counter, wake the time its timer is set    *)
(* to, returned what the last finished call gave back, sent the number of   *)
(* requests the call has issued and status the status of its last response  *)
(* (0 for a network error or none yet).  A request is                       *)
(* outbound from the moment its action appends its start time to requests.  *)
(***************************************************************************)
MIN_DELAY_MS == 500

DEFAULT_MAX_RETRIES == 3

MaxRequests == 4

\* 2 ^ n
RECURSIVE Pow2(_)
Pow2(n) == IF n = 0 THEN 1 ELSE 2 * Pow2(n - 1)

\* Math.pow(2, attempt + 1) * 1000
Backoff(attempt) == Pow2(attempt + 1) * 1000

\* the time between two calls of a caller, the time a response takes and
\* the time by which a timer fires late
Gaps == {0, 600}

Latencies == {100}

Lateness == {0, 100}

\* what a request ends with: a status, or 0 for a network error
Outcomes == {200, 404, 429, 503, 0}

\* a status test that retries server errors only
RetryableServerOnly(status) == status >= 500

\* response.status === 429 || response.status >= 500
Retryable(status) == status = 429 \/ status >= 500

IdleCall ==
    [op |-> "none", pc |-> "idle", attempt |-> 0, maxRetries |-> 0,
     wake |-> 0, returned |-> "nothing", sent |-> 0, status |-> 0]

Later(t, u) == IF t >= u THEN t ELSE u

\* one caller issues its fetch calls one after the other
InitFetch ==
    /\ text = <<>>
    /\ act = ""
    /\ fn = "none"
    /\ result = NoResult
    /\ first = <<>>
    /\ IngestIdle
    /\ ToolIdle
    /\ LineIdle
    /\ now = START_TIME
    /\ lastRequestTime = 0
    /\ requests = <<>>
    /\ calls = <<IdleCall>>

Others == <<text, act, fn, result, first, ingestVars, toolVars, lineVars>>

\* fetchWithRateLimit(url, maxRetries) is called
CallFetchWithRateLimit(c) ==
    /\ calls[c].pc = "idle"
    /\ Len(requests) < MaxRequests
    /\ \E gap \in Gaps, maxRetries \in {1, DEFAULT_MAX_RETRIES} :
        /\ now' = now + gap
        /\ calls' = [calls EXCEPT ![c] =
                        [IdleCall EXCEPT !.op = "fetchWithRateLimit",
                                         !.pc = "rateLimit",
                                         !.maxRetries = maxRetries]]
    /\ UNCHANGED <<lastRequestTime, requests, Others>>

\* fetchPdfAsText(url, cacheDir, cacheKey) is called; a cached text is
\* returned at once
CallFetchPdfAsText(c) ==
    /\ calls[c].pc = "idle"
    /\ Len(requests) < MaxRequests
    /\ \E gap \in Gaps, cached \in BOOLEAN :
        /\ now' = IF cached THEN now ELSE now + gap
        /\ calls' = [calls EXCEPT ![c] =
                        IF cached
                        THEN [IdleCall EXCEPT !.returned = "text"]
                        ELSE [IdleCall EXCEPT !.op = "fetchPdfAsText",
                                              !.pc = "rateLimit"]]
    /\ UNCHANGED <<lastRequestTime, requests, Others>>

\* rateLimit(): now and lastRequestTime are read; the call sleeps, or sets
\* lastRequestTime at once
RateLimit(c) ==
    /\ calls[c].pc = "rateLimit"
    /\ LET elapsed == now - lastRequestTime
       IN  IF elapsed < MIN_DELAY_MS
           THEN /\ calls' = [calls EXCEPT ![c].pc = "sleeping",
                                          ![c].wake = now + (MIN_DELAY_MS - elapsed)]
                /\ UNCHANGED lastRequestTime
           ELSE /\ calls' = [calls EXCEPT ![c].pc = "request"]
                /\ lastRequestTime' = now
    /\ UNCHANGED <<now, requests, Others>>

\* the timer of rateLimit() fires: lastRequestTime = Date.now()
RateLimitWake(c) ==
    /\ calls[c].pc = "sleeping"
    /\ \E late \in Lateness :
        /\ now' = Later(now, calls[c].wake) + late
        /\ lastRequestTime' = now'
    /\ calls' = [calls EXCEPT ![c].pc = "request"]
    /\ UNCHANGED <<requests, Others>>

\* fetch(url, ...) of an attempt, or the curl download: a request goes out
SendRequest(c) ==
    /\ calls[c].pc = "request"
    /\ Len(requests) < MaxRequests
    /\ requests' = Append(requests, now)
    /\ calls' = [calls EXCEPT ![c].pc = "waiting", ![c].sent = @ + 1]
    /\ UNCHANGED <<now, lastRequestTime, Others>>

\* the request of fetchWithRateLimit ends: the call returns, throws, or
\* sets the timer of its backoff
Respond(c) ==
    /\ calls[c].pc = "waiting"
    /\ calls[c].op = "fetchWithRateLimit"
    /\ \E latency \in Latencies, status \in Outcomes :
        /\ now' = now + latency
        /\ calls' = [calls EXCEPT ![c] =
                IF (status = 0 \/ Retryable(status))
                       /\ calls[c].attempt < calls[c].maxRetries
                THEN [calls[c] EXCEPT !.pc = "backoff", !.status = status,
                          !.wake = now' + Backoff(calls[c].attempt)]
                ELSE [calls[c] EXCEPT !.pc = "idle", !.status = status,
                          !.returned = IF status = 0 THEN "thrown"
                                       ELSE "FetchResult"]]
    /\ UNCHANGED <<lastRequestTime, requests, Others>>

\* a wake-up that continues without counting the attempt
BackoffWakeSameAttempt(c) ==
    /\ calls[c].pc = "backoff"
    /\ \E late \in Lateness :
        now' = Later(now, calls[c].wake) + late
    /\ calls' = [calls EXCEPT ![c].pc = "request"]
    /\ UNCHANGED <<lastRequestTime, requests, Others>>

\* the timer of the backoff fires: `continue`, attempt++ and the loop test
\* attempt <= maxRetries; past the loop the generic error is thrown
BackoffWake(c) ==
    /\ calls[c].pc = "backoff"
    /\ \E late \in Lateness :
        now' = Later(now, calls[c].wake) + late
    /\ calls' = [calls EXCEPT ![c] =
                    IF calls[c].attempt + 1 <= calls[c].maxRetries
                    THEN [calls[c] EXCEPT !.pc = "request",
                                          !.attempt = @ + 1]
                    ELSE [calls[c] EXCEPT !.pc = "idle", !.attempt = @ + 1,
                                          !.returned = "failed"]]
    /\ UNCHANGED <<lastRequestTime, requests, Others>>

\* the download of fetchPdfAsText ends: the text or null is returned
PdfDone(c) ==
    /\ calls[c].pc = "waiting"
    /\ calls[c].op = "fetchPdfAsText"
    /\ \E latency \in Latencies, extracted \in BOOLEAN :
        /\ now' = now + latency
        /\ calls' = [calls EXCEPT ![c].pc = "idle",
                                  ![c].returned = IF extracted THEN "text"
                                                  ELSE "null"]
    /\ UNCHANGED <<lastRequestTime, requests, Others>>

NextFetch ==
    \/ \E c \in DOMAIN calls : CallFetchWithRateLimit(c)
    \/ \E c \in DOMAIN calls : CallFetchPdfAsText(c)
    \/ \E c \in DOMAIN calls : RateLimit(c)
    \/ \E c \in DOMAIN calls : RateLimitWake(c)
    \/ \E c \in DOMAIN calls : SendRequest(c)
    \/ \E c \in DOMAIN calls : Respond(c)
    \/ \E c \in DOMAIN calls : BackoffWake(c)
    \/ \E c \in DOMAIN calls : PdfDone(c)

SpecFetch == InitFetch /\ [][NextFetch]_vars

\* C17: any two consecutive requests sent by the fetcher start at least
\* MIN_DELAY_MS apart.
C17_RequestsApart ==
    \A k \in 1..(Len(requests) - 1) :
        requests[k + 1] - requests[k] >= MIN_DELAY_MS

(***************************************************************************)
(* The tools of src/tools and the database they read.  A table is the       *)
(* sequence of its rows in scan order.  Cell values and citations are       *)
(* strings of the model, on one line and without the LIKE wildcards % and   *)
(* _.  U+00A7 is written "$" and the Hebrew word U+05E1 U+05E2 U+05D9       *)
(* U+05E3 "####".                                                           *)
(***************************************************************************)
PARA == "$"

SE_IF == "####"

null == << <<"null", 0>> >>

\* (\d+[A-Za-z]*(?:\(\d+\))?) at run i: the run just past it, 0 when absent
CitedLabelEnd(s, i) ==
    LET d == SkipClass(s, i, Digits, FALSE)
        l == SkipClass(s, d, Letters, FALSE)
        p == SkipClass(s, l + 1, Digits, FALSE)
    IN  IF d = i THEN 0
        ELSE IF At(s, l) = "(" /\ p > l + 1 /\ At(s, p) = ")" THEN p + 1
        ELSE l

\* LABEL[,;]?\s+(.+)$ with the label at run w
LabelFirst(s, w) ==
    LET e == CitedLabelEnd(s, w)
        c == IF At(s, e) \in {",", ";"} THEN e + 1 ELSE e
        r == SkipClass(s, c, WhiteSpace, FALSE)
    IN  IF e > 0 /\ r > c /\ r <= Len(s)
        THEN [ok |-> TRUE, end |-> Len(s) + 1,
              g1 |-> Slice(s, w, e), g2 |-> SubSeq(s, r, Len(s))]
        ELSE NoMatch

\* ^(.+?)[,;]?\s*word LABEL$, with \s+ (spaced) or \s* before the label; s
\* is trimmed
LabelLast(s, word, spaced) ==
    LET J == {j \in 2..Len(s) :
                /\ HasLitI(s, j, word)
                /\ LET w == SkipClass(s, j + Len(word), WhiteSpace, FALSE)
                   IN  /\ spaced => w > j + Len(word)
                       /\ CitedLabelEnd(s, w) = Len(s) + 1}
    IN  IF J = {} THEN NoMatch
        ELSE LET q == MinOf(J)
                 b == MaxOf({k \in 1..(q - 1) : s[k][1] \notin WhiteSpace}) + 1
                 p == IF b > 1 /\ s[b - 1][1] \in {",", ";"} THEN b - 1 ELSE b
                 last == IF p > 1 THEN p - 1 ELSE 1
             IN  [ok |-> TRUE, end |-> Len(s) + 1,
                  g1 |-> SubSeq(s, 1, last),
                  g2 |-> SubSeq(s, SkipClass(s, q + Len(word), WhiteSpace, FALSE),
                                Len(s))]

\* /^Section\s+(LABEL)[,;]?\s+(.+)$/i
sectionFirst(s) ==
    LET w == SkipClass(s, 8, WhiteSpace, FALSE)
    IN  IF HasLitI(s, 1, "Section") /\ w > 8 THEN LabelFirst(s, w) ELSE NoMatch

\* /^§\s*(LABEL)[,;]?\s+(.+)$/
paraFirst(s) ==
    IF HasLit(s, 1, PARA)
    THEN LabelFirst(s, SkipClass(s, 2, WhiteSpace, FALSE)) ELSE NoMatch

\* /^סעיף\s+(LABEL)[,;]?\s+(.+)$/
hebrewSection(s) ==
    LET w == SkipClass(s, 5, WhiteSpace, FALSE)
    IN  IF HasLit(s, 1, SE_IF) /\ w > 5 THEN LabelFirst(s, w) ELSE NoMatch

\* /^(.+?)[,;]?\s*Section\s+(LABEL)$/i
sectionLast(s) == LabelLast(s, "Section", TRUE)

\* /^(.+?)[,;]?\s*§\s*(LABEL)$/
paraLast(s) == LabelLast(s, PARA, FALSE)

\* the label stands first: the law is group 2
LawLast(m, otherwise) ==
    IF m.ok THEN [documentRef |-> Trim(m.g2), sectionRef |-> m.g1]
    ELSE otherwise

\* the label stands last: the law is group 1
LawFirst(m, otherwise) ==
    IF m.ok THEN [documentRef |-> Trim(m.g1), sectionRef |-> m.g2]
    ELSE otherwise

ParseTrimmed(trimmed) ==
    LawLast(sectionFirst(trimmed),
        LawLast(paraFirst(trimmed),
            LawLast(hebrewSection(trimmed),
                LawFirst(sectionLast(trimmed),
                    LawFirst(paraLast(trimmed),
                        [documentRef |-> trimmed, sectionRef |-> undefined])))))

parseCitation(citation) == ParseTrimmed(Trim(citation))

\* LOWER(a) = LOWER(b)
LowerEqual(a, b) ==
    Len(a) = Len(b) /\ \A k \in 1..Len(a) : Fold(a[k][1]) = Fold(b[k][1])

\* cell LIKE '%' || t || '%': LIKE does not tell ASCII upper from lower case
Like(cell, t) ==
    \E j \in 1..(Len(cell) - Len(t) + 1) : LowerEqual(SubSeq(cell, j, j + Len(t) - 1), t)

\* the first row of the scan that passes the WHERE clause, 0 when none
FirstRow(rows, Where(_)) ==
    LET J == {k \in 1..Len(rows) : Where(rows[k])}
    IN  IF J = {} THEN 0 ELSE MinOf(J)

\* the statements a function prepares and runs: what they leave in the
\* database.  Every statement of the tools is a SELECT.
Statement(verb, table) == [verb |-> verb, table |-> table]

Run(d, statement) ==
    IF statement.verb = "SELECT" THEN d
    ELSE [d EXCEPT ![statement.table] = <<>>]

RECURSIVE RunAll(_, _)
RunAll(d, statements) ==
    IF statements = <<>> THEN d
    ELSE RunAll(Run(d, Head(statements)), Tail(statements))

\* a statement that deletes the rows it was to read
SelectMetadataDeleting == Statement("DELETE", "db_metadata")

\* SELECT value FROM db_metadata WHERE key = 'built_at'
SelectMetadata == Statement("SELECT", "db_metadata")

SelectDocuments == Statement("SELECT", "legal_documents")

SelectProvisions == Statement("SELECT", "legal_provisions")

IdIs(ref, row) == row.id = ref

ShortNameIs(ref, row) == LowerEqual(row.short_name, ref)

TitleLike(ref, row) ==
    Like(row.title, ref) \/ Like(row.short_name, ref) \/ Like(row.title_en, ref)

\* the id of row k of the documents, otherwise what the next query gives
IdOr(docs, k, otherwise) == IF k > 0 THEN docs[k].id ELSE otherwise

ResolveTrimmed(docs, trimmed) ==
    LET Direct(row) == IdIs(trimmed, row)
        Short(row) == ShortNameIs(trimmed, row)
        Title(row) == TitleLike(trimmed, row)
    IN  IF trimmed = <<>> THEN null
        ELSE IdOr(docs, FirstRow(docs, Direct),
                 IdOr(docs, FirstRow(docs, Short),
                     IdOr(docs, FirstRow(docs, Title), null)))

resolveDocumentId(d, input) == ResolveTrimmed(d.legal_documents, Trim(input))

\* the four queries of resolveDocumentId
ResolveStatements ==
    <<SelectDocuments, SelectDocuments, SelectDocuments, SelectDocuments>>

generateResponseMetadata(d) ==
    LET BuiltAt(row) == row.key = "built_at"
        row == FirstRow(d.db_metadata, BuiltAt)
    IN  [data_source |-> "Knesset Legislation Database", jurisdiction |-> "IL",
         disclaimer |-> "English translations are unofficial",
         freshness |-> IF row > 0 THEN d.db_metadata[row].value ELSE "undefined"]

MetadataStatements == <<SelectMetadata>>

ProvisionIs(docId, ref, row) ==
    /\ row.document_id = docId
    /\ \/ row.provision_ref = ref
       \/ row.provision_ref = Explode("sec") \o ref
       \/ row.section = ref

\* no warning for any status
StatusWarningsNone(status) == <<>>

StatusWarnings(status) ==
    IF status = "repealed" THEN <<"repealed">>
    ELSE IF status = "amended" THEN <<"amended">>
    ELSE <<>>

\* the results for a document that was found, with the row of the cited
\* provision (0 when there is none)
ValidateFound(citation, sectionRef, doc, provisions, provision, warnings) ==
    IF sectionRef = undefined
    THEN [valid |-> TRUE, citation |-> citation, normalized |-> doc.title,
          document_id |-> doc.id, document_title |-> doc.title,
          status |-> doc.status, warnings |-> warnings]
    ELSE IF provision = 0
    THEN [valid |-> FALSE, citation |-> citation, document_id |-> doc.id,
          document_title |-> doc.title,
          warnings |-> Append(warnings, "Provision not found")]
    ELSE [valid |-> TRUE, citation |-> citation,
          normalized |-> Explode("Section ") \o sectionRef \o Explode(", ")
                            \o doc.title,
          document_id |-> doc.id, document_title |-> doc.title,
          provision_ref |-> provisions[provision].provision_ref,
          status |-> doc.status, warnings |-> warnings]

ValidateResolved(d, citation, parsed, docId) ==
    LET IsDoc(row) == IdIs(docId, row)
        IsProvision(row) == ProvisionIs(docId, parsed.sectionRef, row)
    IN  IF docId = null
        THEN [valid |-> FALSE, citation |-> citation,
              warnings |-> <<"Document not found">>]
        ELSE ValidateFound(citation, parsed.sectionRef,
                 d.legal_documents[FirstRow(d.legal_documents, IsDoc)],
                 d.legal_provisions, FirstRow(d.legal_provisions, IsProvision),
                 StatusWarnings(
                     d.legal_documents[FirstRow(d.legal_documents, IsDoc)].status))

ValidateParsed(d, citation, parsed) ==
    ValidateResolved(d, citation, parsed,
                     resolveDocumentId(d, parsed.documentRef))

validateCitationTool(d, citation) ==
    [results |-> ValidateParsed(d, citation, parseCitation(citation)),
     _metadata |-> generateResponseMetadata(d)]

\* the statements of validateCitationTool, of resolveDocumentId and of
\* generateResponseMetadata in it
ValidateStatements ==
    ResolveStatements \o <<SelectDocuments, SelectProvisions>>
        \o MetadataStatements

\* law.split('(')[0].trim()
BeforeParen(law) == Trim(SubSeq(law, 1, NextChar(law, 1, "(") - 1))

Formatted(section, law, format) ==
    IF section = undefined THEN law
    ELSE IF format = "short"
    THEN Explode("Section ") \o section \o Explode(", ") \o BeforeParen(law)
    ELSE IF format = "pinpoint" THEN Explode(PARA) \o section
    ELSE Explode("Section ") \o section \o Explode(", ") \o law

\* section = sectionFirst?.[1] ?? sectionLast?.[2] ?? paraFirst?.[1], and
\* law likewise
FormatMatched(trimmed, m1, m4, m2, format) ==
    IF m1.ok THEN Formatted(m1.g1, m1.g2, format)
    ELSE IF m4.ok THEN Formatted(m4.g2, m4.g1, format)
    ELSE IF m2.ok THEN Formatted(m2.g1, m2.g2, format)
    ELSE Formatted(undefined, trimmed, format)

FormatTrimmed(trimmed, format) ==
    FormatMatched(trimmed, sectionFirst(trimmed), sectionLast(trimmed),
                  paraFirst(trimmed), format)

formatCitationTool(citation, format) ==
    [original |-> citation, formatted |-> FormatTrimmed(Trim(citation), format),
     format |-> format]

\* capabilities.ts: the tier, schema_version and built_at rows of db_metadata
readDbMetadata(d) ==
    LET Value(key) ==
            LET Is(row) == row.key = key
                row == FirstRow(d.db_metadata, Is)
            IN  IF row > 0 THEN d.db_metadata[row].value ELSE "undefined"
    IN  [tier |-> Value("tier"), schema_version |-> Value("schema_version"),
         built_at |-> Value("built_at")]

listSources(d) ==
    LET meta == readDbMetadata(d)
    IN  [results |->
            [sources |-> <<"Knesset Legislation Database",
                           "Israeli Government Legal Information">>,
             database |-> [tier |-> meta.tier,
                           schema_version |-> meta.schema_version,
                           built_at |-> meta.built_at,
                           document_count |-> Len(d.legal_documents),
                           provision_count |-> Len(d.legal_provisions)]],
         _metadata |-> generateResponseMetadata(d)]

ListStatements ==
    <<SelectMetadata, SelectDocuments, SelectProvisions>> \o MetadataStatements

\* the databases of the model: two documents, the first in any status, with
\* or without the db_metadata rows; and the empty database
Statuses == {"in_force", "amended", "repealed", "not_yet_in_force"}

Documents(status) ==
    << [id |-> Explode("privacy-protection-law-1981"),
        title |-> Explode("Hok Haganat HaPratiyut"),
        title_en |-> Explode("Privacy Protection Law 1981"),
        short_name |-> Explode("PPL"), status |-> status],
       [id |-> Explode("computer-law-1995"),
        title |-> Explode("Hok HaMahshevim"),
        title_en |-> Explode("Computers Law 1995"),
        short_name |-> Explode("CL"), status |-> "in_force"] >>

Provisions ==
    << [document_id |-> Explode("privacy-protection-law-1981"),
        provision_ref |-> Explode("sec3"), section |-> Explode("3")],
       [document_id |-> Explode("privacy-protection-law-1981"),
        provision_ref |-> Explode("sec17C"), section |-> Explode("17C")],
       [document_id |-> Explode("computer-law-1995"),
        provision_ref |-> Explode("art2"), section |-> Explode("2")] >>

DbMetadata ==
    << [key |-> "tier", value |-> "free"],
       [key |-> "schema_version", value |-> "2"],
       [key |-> "built_at", value |-> "2026-01-01"] >>

Databases ==
    {[legal_documents |-> Documents(status), legal_provisions |-> Provisions,
      db_metadata |-> metadata] :
        status \in Statuses, metadata \in {DbMetadata, <<>>}}
    \cup {EmptyDb}

Citations ==
    {Explode("Section 3, Privacy Protection Law 1981"),
     Explode("section 17C; ppl"),
     Explode("Section 99, Privacy Protection Law 1981"),
     Explode("Privacy Protection Law 1981, Section 3"),
     Explode("Privacy Protection Law (1981) Section 5(1)"),
     Explode("$3 PPL"), Explode("PPL $ 17C"), Explode("#### 3, PPL"),
     Explode("Section 2 Computers Law 1995"), Explode("computer-law-1995"),
     Explode(" Privacy Protection "), Explode("Fictional Law 2099"),
     Explode("Section 3, Fictional Law 2099"), Explode("Section 3"),
     Explode("   "), <<>>}

Formats == {"full", "short", "pinpoint"}

InitTools ==
    /\ text = <<>>
    /\ act = ""
    /\ fn = "none"
    /\ result = NoResult
    /\ first = <<>>
    /\ IngestIdle
    /\ FetchIdle
    /\ LineIdle
    /\ db \in Databases
    /\ response = NoResponse

NotTools == <<text, act, fn, result, first, ingestVars, fetchVars, lineVars>>

ValidateCitationTool ==
    /\ \E citation \in Citations :
        response' = validateCitationTool(db, citation)
    /\ db' = RunAll(db, ValidateStatements)
    /\ UNCHANGED NotTools

FormatCitationTool ==
    /\ \E citation \in Citations, format \in Formats :
        response' = formatCitationTool(citation, format)
    /\ UNCHANGED <<db, NotTools>>

ListSources ==
    /\ response' = listSources(db)
    /\ db' = RunAll(db, ListStatements)
    /\ UNCHANGED NotTools

ResolveDocumentId ==
    /\ \E citation \in Citations :
        response' = [id |-> resolveDocumentId(db, citation)]
    /\ db' = RunAll(db, ResolveStatements)
    /\ UNCHANGED NotTools

GenerateResponseMetadata ==
    /\ response' = generateResponseMetadata(db)
    /\ db' = RunAll(db, MetadataStatements)
    /\ UNCHANGED NotTools

NextTools ==
    \/ ValidateCitationTool
    \/ FormatCitationTool
    \/ ListSources
    \/ ResolveDocumentId
    \/ GenerateResponseMetadata

SpecTools == InitTools /\ [][NextTools]_vars

\* the last call was one of the three tool entry points
ToolCalled ==
    \/ "results" \in DOMAIN response
    \/ "formatted" \in DOMAIN response

\* C18: what validateCitationTool, listSources and formatCitationTool return
\* is a ToolResponse: it has a results field and a _metadata field, and the
\* metadata carries the disclaimer and the freshness.
C18_ToolResponse ==
    ToolCalled =>
        /\ {"results", "_metadata"} \subseteq DOMAIN response
        /\ {"disclaimer", "freshness"} \subseteq DOMAIN response._metadata

\* C19: no call of validateCitationTool, listSources, resolveDocumentId or
\* generateResponseMetadata changes a table of the database.
C19_ReadOnly == [][db' = db]_vars

\* validateCitationTool found a provision in a database that holds rows in
\* all three tables
C19_Witness ==
    /\ "results" \in DOMAIN response
    /\ "provision_ref" \in DOMAIN response.results
    /\ db.legal_documents # <<>>
    /\ db.legal_provisions # <<>>
    /\ db.db_metadata # <<>>

\* the last call was validateCitationTool
Validated ==
    "results" \in DOMAIN response /\ "valid" \in DOMAIN response.results

\* what the citation of the last call cites
Cited == parseCitation(response.results.citation)

CitedDocument == resolveDocumentId(db, Cited.documentRef)

DocumentExists ==
    \E k \in 1..Len(db.legal_documents) : db.legal_documents[k].id = CitedDocument

ProvisionExists ==
    \E k \in 1..Len(db.legal_provisions) :
        LET row == db.legal_provisions[k]
        IN  /\ row.document_id = CitedDocument
            /\ \/ row.section = Cited.sectionRef
               \/ row.provision_ref = Cited.sectionRef
               \/ row.provision_ref = Explode("sec") \o Cited.sectionRef

CitedStatus ==
    LET k == CHOOSE j \in 1..Len(db.legal_documents) :
                 db.legal_documents[j].id = CitedDocument
    IN  db.legal_documents[k].status

\* C20: validateCitationTool answers valid exactly when the cited document
\* is a row of legal_documents and, if a section is cited, a provision of
\* that document has it as section or provision_ref; an answer that is not
\* valid carries a warning; a repealed or amended document adds a warning
\* and leaves valid as it is.
C20_ValidCitation ==
    Validated =>
        /\ response.results.valid
              <=> /\ DocumentExists
                  /\ Cited.sectionRef # undefined => ProvisionExists
        /\ ~response.results.valid => response.results.warnings # <<>>
        /\ DocumentExists =>
              \A status \in {"repealed", "amended"} :
                  CitedStatus = status
                      => \E k \in 1..Len(response.results.warnings) :
                             response.results.warnings[k] = status

\* a section of a repealed law is cited: valid, with the warning
C20_Witness ==
    /\ Validated
    /\ response.results.valid
    /\ response.results.citation = Explode("section 17C; ppl")
    /\ response.results.provision_ref = Explode("sec17C")
    /\ response.results.warnings = <<"repealed">>

(***************************************************************************)
(* The line loops of parseComputerLawText and parseBasicLawText, one       *)
(* iteration of `for (let i = 0; i < lines.length; i++)` per step.  A call  *)
(* splits its text, runs the loop line by line and returns after the final *)
(* loop over the sections.                                                  *)
(*   loopLines  the array lines of the call under way                       *)
(*   cursor     the index (from 1) of the line the next iteration reads;    *)
(*              0 before the call and after its return                      *)
(*   machine    currentChapter, sections, currentSection and               *)
(*              marginalNoteLines (statute), or sections and                *)
(*              currentSection (basic law)                                  *)
(***************************************************************************)
MaxLines == 3

StatuteLineChunks ==
    << Explode("Titles\n"),
       Explode("1.\n"),
       Explode("2. Inline body\n"),
       Explode("Chapter One: General\n"),
       Explode("\n"),
       Explode("3. Published in 1995\n"),
       Explode("Go\n"),
       Explode("12\n"),
       Explode("*\n"),
       Explode("Published in Sefer\n"),
       Explode("Computers Law, 1995\n"),
       Explode("Section 4\n") >>

BasicLineChunks ==
    << Explode("Titles\n"),
       Explode("1.\n"),
       Explode("2. Inline body\n"),
       Explode("\n"),
       Explode("(Amendment 1)\n"),
       Explode("BASIC-LAW: x\n"),
       Explode("3.x\n"),
       Filler(MAX_TITLE_LINE) \o Explode("\n") >>

\* two chapters, a section under each
ChapterScenario ==
    Explode("Chapter One: General\n1.\nBody text of one.\n")
    \o Explode("Chapter Two: Offences\n2. Inline body\n")

\* five lines above a section start
LookBackScenario ==
    Explode("Far\nOne\nTwo\nThree\nFour\n1. Inline body text\n")

\* a blank line between two labels above a section start
BlankScenario ==
    Explode("Old\n\nNew\n1. Inline body text\n")

\* a label between two sections
BetweenScenario ==
    Explode("1. Inline body text\nSecond label\n2. Inline body text\n")

LineScenarios ==
    {ChapterScenario, LookBackScenario, BlankScenario, BetweenScenario}

LineInputs ==
    {Concat(StatuteLineChunks, q) :
        q \in SeqsUpTo(Len(StatuteLineChunks), MaxLines)}
    \cup {Concat(BasicLineChunks, q) :
        q \in SeqsUpTo(Len(BasicLineChunks), MaxLines)}
    \cup LineScenarios

InitLines ==
    /\ text \in LineInputs
    /\ act = ""
    /\ fn = "none"
    /\ result = NoResult
    /\ first = <<>>
    /\ EnvIdle

NotLines == <<ingestVars, fetchVars, toolVars>>

\* parser.ts 196-205: the text from the masthead on is split into lines
StartComputerLawText ==
    /\ fn = "none"
    /\ act' = "computer-law-1995"
    /\ fn' = "parseComputerLawText"
    /\ loopLines' = SplitLines(ComputerLawText(text), 1)
    /\ cursor' = 1
    /\ machine' = ComputerInit
    /\ UNCHANGED <<text, result, first, NotLines>>

\* parser.ts 207-305: one iteration
ComputerLine ==
    /\ fn = "parseComputerLawText"
    /\ cursor \in 1..Len(loopLines)
    /\ machine' = ComputerLineStep(machine, loopLines[cursor], cursor)
    /\ cursor' = cursor + 1
    /\ UNCHANGED <<text, act, fn, result, first, loopLines, NotLines>>

\* parser.ts 307-343: the last section is saved, the sections are filtered
\* and the act is returned
ComputerReturn ==
    /\ fn = "parseComputerLawText"
    /\ cursor = Len(loopLines) + 1
    /\ result' = Returned(act, TextSectionLoop(
                     [provisions |-> NewProvisions,
                      definitions |-> NewDefinitions, cands |-> <<>>],
                     SaveSection(machine), 1, TRUE))
    /\ first' = Invocation(fn, result')
    /\ cursor' = 0
    /\ UNCHANGED <<text, act, fn, loopLines, machine, NotLines>>

\* parser.ts 345-355
StartBasicLawText ==
    /\ fn = "none"
    /\ act' = "basic-law-human-dignity-1992"
    /\ fn' = "parseBasicLawText"
    /\ loopLines' = SplitLines(text, 1)
    /\ cursor' = 1
    /\ machine' = BasicInit
    /\ UNCHANGED <<text, result, first, NotLines>>

\* parser.ts 357-398: one iteration
BasicLine ==
    /\ fn = "parseBasicLawText"
    /\ cursor \in 1..Len(loopLines)
    /\ machine' = BasicLineStep(machine, loopLines, cursor)
    /\ cursor' = cursor + 1
    /\ UNCHANGED <<text, act, fn, result, first, loopLines, NotLines>>

\* parser.ts 400-432
BasicReturn ==
    /\ fn = "parseBasicLawText"
    /\ cursor = Len(loopLines) + 1
    /\ result' = IF machine.thrown THEN Thrown(act)
                 ELSE Returned(act, TextSectionLoop(
                          [provisions |-> NewProvisions,
                           definitions |-> NewDefinitions, cands |-> <<>>],
                          SaveSection(machine), 1, FALSE))
    /\ first' = Invocation(fn, result')
    /\ cursor' = 0
    /\ UNCHANGED <<text, act, fn, loopLines, machine, NotLines>>

NextLines ==
    \/ StartComputerLawText
    \/ ComputerLine
    \/ ComputerReturn
    \/ StartBasicLawText
    \/ BasicLine
    \/ BasicReturn

SpecLines == InitLines /\ [][NextLines]_vars

(***************************************************************************)
(* Properties of the statute line loop                                     *)
(***************************************************************************)
\* a statute call is inside its line loop or at the `// Save last section`
\* step
InComputerLoop == fn = "parseComputerLawText" /\ cursor > 0

\* the trimmed line of index j
LineAt(j) == Trim(loopLines[j])

\* the line starts a section: it is no chapter heading and has the
\* section-alone shape, or the section-inline shape without the footnote
\* phrase
ComputerSectionStart(line) ==
    /\ ~chapterMatch(line)
    /\ \/ sectionAloneMatch(line).ok
       \/ /\ sectionInlineMatch(line).ok
          /\ ~HasLitI(sectionInlineMatch(line).g2, 1, "Published in")

\* the indices below stop of the section-start lines
StartsBelow(stop) ==
    {j \in 1..(stop - 1) : ComputerSectionStart(LineAt(j))}

\* the marginal-note lines among the lines j..stop-1, none of which starts
\* a section, collected by the rule of the no-active-section branch; a
\* numbered 'Published in' footnote is passed over
RECURSIVE NotesFrom(_, _, _)
NotesFrom(j, stop, buf) ==
    IF j >= stop THEN buf
    ELSE LET line == LineAt(j)
         IN  NotesFrom(j + 1, stop,
                 IF chapterMatch(line) THEN <<>>
                 ELSE IF Len(line) = 0 \/ sectionInlineMatch(line).ok THEN buf
                 ELSE IF ~MarginalNoise(line) THEN Append(buf, line)
                 ELSE IF GoLine(line) \/ SectionRef(line) THEN <<>>
                 ELSE buf)

\* the title built from the marginal-note lines between the section start
\* before line p (the top of the text when there is none) and line p
TitleFromNotesBefore(p) ==
    LET before == StartsBelow(p)
        from == IF before = {} THEN 1 ELSE MaxOf(before) + 1
    IN  MarginalTitle(NotesFrom(from, p, <<>>),
                      sectionAloneMatch(LineAt(p)).ok)

\* the sections the loop has started: the finalized ones and the open one
Started == SaveSection(machine)

\* C21: once a section-start line has been read the statute machine is
\* in-section for the rest of the input, and the title of every section,
\* the first and the later ones alike, is built from the marginal-note lines
\* between the previous section start and its own section-start line.
C21_NotesBetweenSections ==
    InComputerLoop =>
        /\ StartsBelow(cursor) # {} => machine.currentSection # <<>>
        /\ \A k \in 1..Len(Started) :
               Started[k].title = TitleFromNotesBefore(Started[k].pos)

\* the iteration about to run reads a line of the statute text
ReadsComputerLine ==
    /\ fn = "parseComputerLawText"
    /\ cursor \in 1..Len(loopLines)
    /\ cursor' = cursor + 1

\* a line of the section-inline shape whose trailing text begins with
\* 'Published in'
PublishedInline(line) ==
    /\ ~chapterMatch(line)
    /\ ~sectionAloneMatch(line).ok
    /\ sectionInlineMatch(line).ok
    /\ HasLitI(sectionInlineMatch(line).g2, 1, "Published in")

\* the machine after line has been appended to the open section
ContentAppended(m, line) ==
    [m EXCEPT !.currentSection[1].content = @ \o <<SP>> \o normalizeText(line)]

\* C22: a numbered 'Published in' footnote line read while a section is open
\* starts no section and is appended to the content of the open section;
\* nothing else of the machine changes.
C22_FootnoteIsContent ==
    [][ReadsComputerLine /\ PublishedInline(LineAt(cursor))
           /\ machine.currentSection # <<>>
        => machine' = ContentAppended(machine, LineAt(cursor))]_vars

\* a line that is no chapter heading and no line of a section shape
OrdinaryLine(line) ==
    /\ ~chapterMatch(line)
    /\ ~sectionAloneMatch(line).ok
    /\ ~sectionInlineMatch(line).ok

\* C23: with no active section a non-empty ordinary line that matches no
\* noise pattern is appended to the marginal-note buffer, and one that
\* matches a noise pattern ('Go', 'Section N', 'Computers Law', digits only,
\* a lone '*', 'Published in') leaves the buffer empty.
C23_NoiseResetsBuffer ==
    [][ReadsComputerLine /\ OrdinaryLine(LineAt(cursor))
           /\ Len(LineAt(cursor)) > 0 /\ machine.currentSection = <<>>
        => machine'.marginalNoteLines =
               IF MarginalNoise(LineAt(cursor)) THEN <<>>
               ELSE Append(machine.marginalNoteLines, LineAt(cursor))]_vars

\* the indices below p of the chapter-heading lines
ChaptersBelow(p) == {j \in 1..(p - 1) : chapterMatch(LineAt(j))}

\* the normalized text of the last chapter-heading line above line p, ''
\* when there is none
ChapterBefore(p) ==
    IF ChaptersBelow(p) = {} THEN <<>>
    ELSE normalizeText(LineAt(MaxOf(ChaptersBelow(p))))

\* the statute call has returned
ComputerReturned == fn = "parseComputerLawText" /\ cursor = 0

\* C24: in the statute variant every section carries the normalized text of
\* the last chapter-heading line above its section-start line, whatever
\* chapter headings follow, and every emitted provision carries that text,
\* or undefined when no chapter heading precedes the section.  Right after
\* a section-start line the sections started before it are finalized, the
\* section of that line is open and the marginal-note buffer is empty.
C24_ChapterScope ==
    /\ InComputerLoop =>
        /\ \A k \in 1..Len(Started) :
               Started[k].chapter = ChapterBefore(Started[k].pos)
        /\ cursor > 1 /\ ComputerSectionStart(LineAt(cursor - 1)) =>
            /\ machine.currentSection # <<>>
            /\ machine.currentSection[1].pos = cursor - 1
            /\ machine.marginalNoteLines = <<>>
            /\ Len(machine.sections) = Cardinality(StartsBelow(cursor - 1))
            /\ {machine.sections[k].pos : k \in 1..Len(machine.sections)}
                   = StartsBelow(cursor - 1)
    /\ ComputerReturned =>
        \A k \in 1..Len(result.provisions) :
            result.provisions[k].chapter
                = OrUndefined(ChapterBefore(result.provisions[k].pos))

\* a text with two chapters has been parsed: the section started under the
\* first chapter keeps it after the second chapter heading
C24_Witness ==
    /\ ComputerReturned
    /\ Len(result.provisions) = 2
    /\ result.provisions[1].chapter = Explode("Chapter One: General")
    /\ result.provisions[2].chapter = Explode("Chapter Two: Offences")

\* the machine after a chapter heading: a new chapter scope and an empty
\* marginal-note buffer
ChapterEntered(m, line) ==
    [m EXCEPT !.currentChapter = normalizeText(line),
              !.marginalNoteLines = <<>>]

\* the word that only the chapter headings of the texts contain
HeadingWord == "Chapter"

\* C25: a chapter-heading line read by the statute loop changes the current
\* chapter and empties the marginal-note buffer and nothing else: the open
\* section (or its absence) and the finalized sections stay as they were;
\* and the heading text is in no section's content or title.
C25_ChapterHeadingFrame ==
    /\ [][ReadsComputerLine /\ chapterMatch(LineAt(cursor))
          => machine' = ChapterEntered(machine, LineAt(cursor))]_vars
    /\ [](InComputerLoop =>
            \A k \in 1..Len(Started) :
                /\ IndexOfFrom(Started[k].content, 1, HeadingWord) = 0
                /\ IndexOfFrom(Started[k].title, 1, HeadingWord) = 0)

\* a chapter heading has just been read while a section with content is
\* open
C25_Witness ==
    /\ InComputerLoop
    /\ cursor > 1
    /\ chapterMatch(LineAt(cursor - 1))
    /\ machine.currentChapter = normalizeText(LineAt(cursor - 1))
    /\ machine.currentSection # <<>>
    /\ machine.currentSection[1].content # <<>>
    /\ machine.currentSection[1].chapter # machine.currentChapter

(***************************************************************************)
(* Properties of both line loops                                           *)
(***************************************************************************)
\* a basic-law call is inside its line loop or at the final save
InBasicLoop == fn = "parseBasicLawText" /\ cursor > 0

BasicReturned == fn = "parseBasicLawText" /\ cursor = 0

\* the indices below stop of the lines the basic-law loop takes as section
\* starts
BasicStartsBelow(stop) ==
    {j \in 1..(stop - 1) : sectionMatch(LineAt(j)).ok}

\* the indices of the section-start lines of the text of the call
AllStarts ==
    IF fn = "parseBasicLawText" THEN BasicStartsBelow(Len(loopLines) + 1)
    ELSE StartsBelow(Len(loopLines) + 1)

\* the positions of the sections in a sequence
Positions(sections) == {sections[k].pos : k \in 1..Len(sections)}

\* C26: in both plain-text variants the sections started so far, the open
\* one included, are one per section-start line read; at return there is
\* one candidate section per section-start line of the text, and every
\* candidate, the last one included, whose normalized content is longer
\* than 10 characters is among the provisions.
C26_OneSectionPerStart ==
    /\ InComputerLoop =>
        /\ Len(Started) = Cardinality(StartsBelow(cursor))
        /\ Positions(Started) = StartsBelow(cursor)
    /\ InBasicLoop /\ ~machine.thrown =>
        /\ Len(Started) = Cardinality(BasicStartsBelow(cursor))
        /\ Positions(Started) = BasicStartsBelow(cursor)
    /\ (ComputerReturned \/ BasicReturned) /\ ~result.thrown =>
        /\ Len(result.cands) = Cardinality(AllStarts)
        /\ Positions(result.cands) = AllStarts
        /\ \A k \in 1..Len(result.cands) :
               StrLen(result.cands[k].content) > MIN_CONTENT
                   => result.cands[k].pos \in Positions(result.provisions)

\* a basic-law text with two section starts has been parsed and the last
\* section, which no later section start finalizes, is a provision
C26_Witness ==
    /\ BasicReturned
    /\ Len(result.cands) = 2
    /\ result.provisions # <<>>
    /\ result.provisions[Len(result.provisions)].pos = result.cands[2].pos
    /\ result.cands[2].pos = MaxOf(AllStarts)

(***************************************************************************)
(* Properties of the basic-law line loop                                   *)
(***************************************************************************)
\* the indices of the lines the look-back of line p may read
Window(p) == {j \in 1..(p - 1) : j >= p - LOOK_BACK}

\* a section-start line with trailing text
StartWithText(l) == sectionMatch(l).ok /\ sectionMatch(l).g2 # <<>>

\* a line that may be part of a title
TitleLine(l) ==
    /\ Len(l) > 0
    /\ StrLen(l) < MAX_TITLE_LINE
    /\ ~StartWithText(l)
    /\ ~HasLit(l, 1, "(Amendment")

\* the blank lines of the window of p with a title line between them and p
Stops(p) ==
    {b \in Window(p) :
        /\ Len(LineAt(b)) = 0
        /\ \E j \in Window(p) : j > b /\ TitleLine(LineAt(j))}

\* the first line the scan from p reaches: the one after the nearest stop,
\* or the farthest line of the window
ScanFrom(p) ==
    IF Stops(p) # {} THEN MaxOf(Stops(p)) + 1
    ELSE IF p - LOOK_BACK > 1 THEN p - LOOK_BACK ELSE 1

\* the title lines of the window of p after the nearest stop, in source order
TitleLinesBefore(p) ==
    SelectSeq([k \in 1..(p - ScanFrom(p)) |-> LineAt(ScanFrom(p) + k - 1)],
              TitleLine)

\* C27: in the basic-law variant the title of a section is the normalized
\* join, in source order, of the title lines among the at most 4 lines above
\* its section-start line that lie after the nearest blank line preceded
\* (towards the section start) by a title line; a title line is non-blank,
\* shorter than 100 characters, no section-start line with trailing text and
\* does not begin with '(Amendment'.
C27_LookBackTitle ==
    InBasicLoop /\ ~machine.thrown =>
        \A k \in 1..Len(Started) :
            Started[k].title
                = normalizeText(JoinSpace(TitleLinesBefore(Started[k].pos)))

\* the indices of the lines that make the title of the section starting at
\* line p
TitleIndices(p) ==
    {j \in ScanFrom(p)..(p - 1) : TitleLine(LineAt(j))}

\* the iteration about to run appends its line to the content of the open
\* section of the basic-law loop
AppendsBasicLine ==
    /\ fn = "parseBasicLawText"
    /\ cursor \in 1..Len(loopLines)
    /\ cursor' = cursor + 1
    /\ machine.currentSection # <<>>
    /\ machine'.sections = machine.sections
    /\ machine'.currentSection # machine.currentSection

\* C28: in the basic-law variant a line appended to the content of the open
\* section is in the title of no section: title text and body text are
\* disjoint.
C28_TitleNotInBody ==
    [][AppendsBasicLine
       => \A p \in AllStarts : cursor \notin TitleIndices(p)]_vars

(***************************************************************************)
(* Properties of the final loops over the sections                         *)
(***************************************************************************)
\* C29: definitions are extracted from the whole normalized content of a
\* designated provision, not from the 8000 characters stored: every match
\* of the whole content with an acceptable term and definition has its term
\* among the definitions of the result, wherever in the content it lies.
C29_DefinitionsBeforeCap ==
    Parsed =>
        \A k \in 1..Len(DesignatedMatches) :
            DefinitionAccepted(DesignatedMatches[k].term,
                               DesignatedMatches[k].definition)
                => \E i \in 1..Len(result.definitions) :
                       result.definitions[i].term = DesignatedMatches[k].term

\* a definition whose term is absent from the stored content of its source
\* provision, which was cut at 8000 characters
C29_Witness ==
    /\ PrivacyParsed
    /\ Len(result.provisions) = 1
    /\ StrLen(result.provisions[1].content) = MAX_CONTENT
    /\ StrLen(CandOf(result.provisions[1]).content) > MAX_CONTENT
    /\ Len(result.definitions) = 1
    /\ result.definitions[1].source_provision
           = result.provisions[1].provision_ref
    /\ result.definitions[1].term = Explode("ab")
    /\ IndexOfFrom(result.provisions[1].content, 1, "ab") = 0

\* the string a occurs in the string b, both without filler runs
Contains(a, b) ==
    \E i \in 1..(Len(b) - Len(a) + 1) : SubSeq(b, i, i + Len(a) - 1) = a

\* the offset at which the content span of candidate k ends
SpanEnd(k) ==
    IF k < Len(result.cands) THEN result.cands[k + 1].pos
    ELSE Len(ScannedBody) + 1

\* C30: in the HTML strategies the section offsets grow strictly and the
\* content of candidate section i is the normalized text of the body from
\* its own offset to the offset of the next section (the end of the body
\* for the last), so the spans tile the body from the first section heading
\* on; the content begins with the section's heading text and contains the
\* text of every chapter heading inside its span.
C30_SpansPartitionBody ==
    HtmlParsed =>
        \A k \in 1..Len(result.cands) :
            LET c == result.cands[k]
            IN  /\ c.pos < SpanEnd(k)
                /\ c.content = normalizeText(stripHtml(
                                   Slice(ScannedBody, c.pos, SpanEnd(k))))
                /\ IsPrefix(normalizeText(c.num \o Explode(". ") \o c.title),
                            c.content)
                /\ \A h \in HeadingsOf(ScannedBody) :
                       c.pos < h.pos /\ h.pos < SpanEnd(k)
                           => Contains(h.name, c.content)

\* two sections with a chapter heading between them: the heading text is in
\* the content of the first section and not in that of the second
C30_Witness ==
    /\ HtmlParsed
    /\ Len(result.cands) = 2
    /\ \E h \in HeadingsOf(ScannedBody) :
           /\ result.cands[1].pos < h.pos
           /\ h.pos < result.cands[2].pos
           /\ Contains(h.name, result.cands[1].content)
           /\ ~Contains(h.name, result.cands[2].content)

(***************************************************************************)
(* fetchWithRateLimit run to its end.  A call is started only when the     *)
(* requests it may issue fit below MaxRequests, so every started call can   *)
(* finish; timers fire and pending promises settle (weak fairness of the    *)
(* steps of a call).                                                        *)
(***************************************************************************)
\* fetchWithRateLimit(url, maxRetries) is called
CallFetchWithinBudget(c) ==
    /\ calls[c].pc = "idle"
    /\ \E gap \in Gaps, maxRetries \in {0, 1, DEFAULT_MAX_RETRIES} :
        /\ Len(requests) + maxRetries + 1 <= MaxRequests
        /\ now' = now + gap
        /\ calls' = [calls EXCEPT ![c] =
                        [IdleCall EXCEPT !.op = "fetchWithRateLimit",
                                         !.pc = "rateLimit",
                                         !.maxRetries = maxRetries]]
    /\ UNCHANGED <<lastRequestTime, requests, Others>>

\* a step of a call under way
CallStep ==
    \E c \in DOMAIN calls :
        \/ RateLimit(c)
        \/ RateLimitWake(c)
        \/ SendRequest(c)
        \/ Respond(c)
        \/ BackoffWake(c)

NextFetchFair ==
    \/ \E c \in DOMAIN calls : CallFetchWithinBudget(c)
    \/ \E c \in DOMAIN calls : RateLimit(c)
    \/ \E c \in DOMAIN calls : RateLimitWake(c)
    \/ \E c \in DOMAIN calls : SendRequest(c)
    \/ \E c \in DOMAIN calls : Respond(c)
    \/ \E c \in DOMAIN calls : BackoffWake(c)

SpecFetchFair == InitFetch /\ [][NextFetchFair]_vars /\ WF_vars(CallStep)

\* the call of the one caller
TheCall == calls[1]

\* C31: a call of fetchWithRateLimit ends, by a return or a throw, and
\* issues at most maxRetries + 1 requests (4 by default).  It is in a
\* backoff only after an attempt whose response was a network error, 429 or
\* >= 500, never before its first request; a request after the first goes
\* out only when the backoff set after the previous response has elapsed;
\* any other status ends the call with a FetchResult at that attempt.
C31_Terminates ==
    /\ [](/\ TheCall.sent <= TheCall.maxRetries + 1
          /\ TheCall.maxRetries <= DEFAULT_MAX_RETRIES
          /\ TheCall.pc \in {"rateLimit", "sleeping"} => TheCall.sent = 0
          /\ TheCall.pc = "backoff" =>
                /\ TheCall.sent = TheCall.attempt + 1
                /\ TheCall.status = 0 \/ Retryable(TheCall.status))
    /\ [][TheCall.pc # "request" /\ calls'[1].pc = "request"
              /\ TheCall.sent >= 1
          => /\ TheCall.pc = "backoff"
             /\ now' >= TheCall.wake
             /\ TheCall.wake >= requests[Len(requests)]
                                    + Backoff(TheCall.attempt)]_vars
    /\ (TheCall.pc # "idle") ~> (TheCall.pc = "idle")

\* a call with the default maxRetries has ended after its fourth request
C31_Witness ==
    /\ TheCall.op = "fetchWithRateLimit"
    /\ TheCall.pc = "idle"
    /\ TheCall.maxRetries = DEFAULT_MAX_RETRIES
    /\ TheCall.sent = DEFAULT_MAX_RETRIES + 1
    /\ TheCall.returned # "nothing"

\* the call of the one caller has ended
CallEnded ==
    /\ TheCall.op = "fetchWithRateLimit"
    /\ TheCall.pc = "idle"

\* C32: a call of fetchWithRateLimit whose last response has status 429 or
\* >= 500 has used all its maxRetries + 1 attempts and returns a FetchResult
\* with that status; a call whose last attempt failed with a network error
\* has used all its attempts and throws that error; the generic 'Failed to
\* fetch' error past the loop is never thrown.
C32_FailureModes ==
    CallEnded =>
        /\ TheCall.returned \in {"FetchResult", "thrown"}
        /\ TheCall.status = 429 \/ TheCall.status >= 500 =>
               /\ TheCall.returned = "FetchResult"
               /\ TheCall.sent = TheCall.maxRetries + 1
        /\ TheCall.status = 0 =>
               /\ TheCall.returned = "thrown"
               /\ TheCall.sent = TheCall.maxRetries + 1
        /\ TheCall.returned = "thrown" => TheCall.status = 0

\* a default call whose four attempts were answered 429 or 5xx has returned
\* the last response
C32_Witness ==
    /\ CallEnded
    /\ TheCall.maxRetries = DEFAULT_MAX_RETRIES
    /\ TheCall.sent = DEFAULT_MAX_RETRIES + 1
    /\ TheCall.status = 429
    /\ TheCall.returned = "FetchResult"

(***************************************************************************)
(* Two callers of the fetcher at once.  JavaScript runs one continuation    *)
(* at a time: rateLimit() up to its await is one step, and the continuation *)
(* after `await rateLimit()`, which issues the request, is a microtask that *)
(* runs before any timer, response or new call (Settled).  Timers fire in   *)
(* the order of their times (TimersInOrder).  The calls retry nothing, so   *)
(* two requests of one call are never compared.                             *)
(***************************************************************************)
InitFetchConcurrent ==
    /\ text = <<>>
    /\ act = ""
    /\ fn = "none"
    /\ result = NoResult
    /\ first = <<>>
    /\ IngestIdle
    /\ ToolIdle
    /\ LineIdle
    /\ now = START_TIME
    /\ lastRequestTime = 0
    /\ requests = <<>>
    /\ calls = <<IdleCall, IdleCall>>

\* fetchWithRateLimit(url, 0) is called
CallFetchNoRetry(c) ==
    /\ calls[c].pc = "idle"
    /\ Len(requests) < MaxRequests
    /\ \E gap \in Gaps :
        /\ now' = now + gap
        /\ calls' = [calls EXCEPT ![c] =
                        [IdleCall EXCEPT !.op = "fetchWithRateLimit",
                                         !.pc = "rateLimit"]]
    /\ UNCHANGED <<lastRequestTime, requests, Others>>

\* no continuation that issues a request is pending
Settled == \A c \in DOMAIN calls : calls[c].pc # "request"

\* the step does not take the clock past a timer that is still pending, by
\* more than a timer may be late
MaxLateness == MaxOf(Lateness)

TimersInOrder ==
    \A c \in DOMAIN calls :
        calls[c].pc = "sleeping" => now' <= calls[c].wake + MaxLateness

NextFetchConcurrent ==
    \/ \E c \in DOMAIN calls : SendRequest(c)
    \/ \E c \in DOMAIN calls :
           Settled /\ CallFetchNoRetry(c) /\ TimersInOrder
    \/ \E c \in DOMAIN calls :
           Settled /\ CallFetchPdfAsText(c) /\ TimersInOrder
    \/ \E c \in DOMAIN calls : Settled /\ RateLimit(c)
    \/ \E c \in DOMAIN calls : Settled /\ RateLimitWake(c) /\ TimersInOrder
    \/ \E c \in DOMAIN calls : Settled /\ Respond(c) /\ TimersInOrder
    \/ \E c \in DOMAIN calls : Settled /\ PdfDone(c) /\ TimersInOrder

SpecFetchConcurrent == InitFetchConcurrent /\ [][NextFetchConcurrent]_vars

\* C33: with two callers whose calls pass through rateLimit at the same
\* time, any two consecutive requests still start at least MIN_DELAY_MS
\* apart.
C33_ApartWhenConcurrent ==
    \A k \in 1..(Len(requests) - 1) :
        requests[k + 1] >= requests[k] + MIN_DELAY_MS

\* C34: whatever fails while an act is processed (reading its cached seed,
\* fetching, parsing, writing its seed), the exception stays inside the
\* loop: the iteration ends with the act reported, a failed act has had its
\* metadata-only fallback attempted, and the loop goes on with the next act
\* of the list.
C34_FailureIsContained ==
    [][Looping =>
          /\ ~loopThrew'
          /\ pending' = Tail(pending)
          /\ Len(perActReport') = Len(perActReport) + 1
          /\ perActReport'[Len(perActReport')].id = Head(pending)
          /\ counters'.failed > counters.failed =>
                perActReport'[Len(perActReport')].source
                    \in {"error-fallback", "failed"}]_vars

\* the acts reported so far, in the order of their entries
ReportedIds == [k \in 1..Len(perActReport) |-> perActReport[k].id]

RECURSIVE SumProvisions(_)
SumProvisions(report) ==
    IF report = <<>> THEN 0
    ELSE Head(report).provisions + SumProvisions(Tail(report))

RECURSIVE SumDefinitions(_)
SumDefinitions(report) ==
    IF report = <<>> THEN 0
    ELSE Head(report).definitions + SumDefinitions(Tail(report))

\* the for loop of fetchAndParseActs has run to its end
LoopCompleted == act # "" /\ pending = <<>> /\ ~loopThrew

\* C35: after every iteration the report holds one entry for each act
\* processed so far, in list order, processed is the number of entries and
\* the two totals are the sums over the entries; the list of acts given
\* never changes, so when the loop completes processed is the number of
\* acts given and every act has exactly one entry.
C35_ReportMatchesActs ==
    /\ [](/\ \E limit \in 1..MaxActs :
                ReportedIds \o pending = SubSeq(KEY_ISRAELI_ACTS, 1, limit)
          /\ counters.processed = Len(perActReport)
          /\ counters.totalProvisions = SumProvisions(perActReport)
          /\ counters.totalDefinitions = SumDefinitions(perActReport)
          /\ LoopCompleted =>
                /\ ReportedIds
                      = SubSeq(KEY_ISRAELI_ACTS, 1, Len(perActReport))
                /\ counters.processed = Len(ReportedIds))
    /\ [][ReportedIds' \o pending' = ReportedIds \o pending]_vars

\* a completed run in which one act was cached, one parsed from its source,
\* one replaced after a failed fetch and one failed with its fallback
C35_Witness ==
    /\ LoopCompleted
    /\ {perActReport[k].source : k \in 1..Len(perActReport)}
          = {"cached", "pdf", "metadata-fallback", "failed"}

\* C36: after every iteration of the ingestion loop the four outcome
\* counters add up to processed: each act processed is counted in exactly
\* one of fetched, metadataOnly, skipped and failed.
C36_OutcomesPartition ==
    counters.processed = counters.fetched + counters.metadataOnly
                            + counters.skipped + counters.failed

\* the counters and the report after the act id was taken from its cached
\* seed, and after nothing else was done
CountedAsCached(id) ==
    /\ counters' = [counters EXCEPT
                        !.totalProvisions = @ + seedFiles[id].provisions,
                        !.totalDefinitions = @ + seedFiles[id].definitions,
                        !.skipped = @ + 1,
                        !.processed = @ + 1]
    /\ perActReport' = Append(perActReport,
                              [id |-> id,
                               provisions |-> seedFiles[id].provisions,
                               definitions |-> seedFiles[id].definitions,
                               source |-> "cached"])

\* neither file of an act is written, no parser is called and no request
\* is sent
NothingFetchedOrWritten ==
    /\ seedFiles' = seedFiles
    /\ sourceFiles' = sourceFiles
    /\ fn' = "none"
    /\ result' = NoResult
    /\ UNCHANGED fetchVars

\* C37: with --skip-fetch, the iteration of an act whose seed file exists
\* fetches nothing, calls no parser and writes neither the seed nor the
\* source file; it adds the cached counts to the totals, pushes a 'cached'
\* report entry, increments skipped and processed, and does nothing else.
C37_CachedActOnlyCounted ==
    [][Looping /\ skipFetch /\ seedFiles[Head(pending)].exists =>
          /\ NothingFetchedOrWritten
          /\ CountedAsCached(Head(pending))
          /\ pending' = Tail(pending)]_vars

====
